---- MODULE Spec2Model ----
(***************************************************************************)
(* Resource lifecycle handlers of the AWS provider: Create / Read / Update *)
(* / Delete functions, the status functions polled by waiters, and the     *)
(* waiter contract they rely on.  One resource instance of one resource    *)
(* type is followed through a sequence of handler invocations while the    *)
(* remote object changes underneath it.                                    *)
(***************************************************************************)
EXTENDS Integers, Sequences, FiniteSets, TLC

VARIABLES
    kind,      \* the resource type whose handlers are being run
    remote,    \* the remote object: "absent" or its lifecycle status
    d,         \* schema.ResourceData: [id, isNew, attrs, text (the ID's characters)]
    pre,       \* d as it was when the running handler was entered (+ "again")
    op,        \* the running handler: "none", "create", "read", "update", "delete"
    pc,        \* position inside the handler: "idle", "wait", "attrs", "read", "done"
    ret,       \* what the handler returned: "none", "ok", "err"
    err,       \* the returned error: [cause, named]
    call,      \* error of the handler's own API call: "none", "nil", "notfound", "other"
    polls,     \* the results of the polls of the running waiter, in order
    elapsed,   \* poll intervals the running waiter has spent
    waitOut,   \* what the waiter returned: [outcome, obj, err]
    calls,     \* calls of the running handler: [api, lookups, read (the answer to Read's lookup)]
    stale,     \* the remote object changed after the waiter's last poll
    again,     \* the previous handler was a successful Delete and nothing happened since
    probe,     \* one application of a status function: [fn, input, action, out]
    retry,     \* the running resource.Retry: [tries, out, outside]
    chg,       \* the keys the running Update was called for
    batch,     \* the Unsuccessful list of the batch response the handler got
    errs,      \* the errors the handler's own API calls returned and it did not retry: [api, err]
    idc,       \* one use of a composite ID: [parts, id, built, parsed, op, ret, cause, api]
    ds,        \* one read of the EKS clusters data source
    cf,        \* one read of the Connect contact flow data source
    at,        \* one resource with its attributes: configuration, state, remote object
    diff       \* one plan of a placement group: [id, partition_count, strategy, ret]

vars == <<kind, remote, d, pre, op, pc, ret, err, call, polls, elapsed,
          waitOut, calls, stale, again, probe, retry, chg, batch, errs, idc, ds,
          cf, at, diff>>

crudVars == <<kind, remote, d, pre, op, pc, ret, err, call, polls, elapsed,
              waitOut, calls, stale, again, retry, chg, batch, errs>>

(***************************************************************************)
(* Bounds                                                                  *)
(***************************************************************************)
\* poll intervals that fit in a waiter's timeout
Timeout == 3
\* longest AdministrativeActions list of a file system
MaxActions == 2
\* attempts that fit in the window of a resource.Retry
MaxTries == 2
\* longest string taken for a resource ID
MaxIdLen == 9
\* longest group name and member name
MaxPartLen == 2
\* most pages a listing answers with
MaxPages == 3
\* most pages the listing of contact flows answers with
MaxFlowPages == 2
\* longest list of contact flow summaries on a page
MaxFlows == 2
\* the largest partition_count the schema accepts
MaxPartitionCount == 7

(***************************************************************************)
(* Values                                                                  *)
(***************************************************************************)
Kinds == {"fsx_ontap_file_system", "fsx_backup", "control_panel", "placement_group",
          "connect_instance", "shield_protection_group", "efs_file_system_policy",
          "route53_query_log", "quicksight_group_membership", "cloudwatch_event_rule",
          "flow_log", "transfer_access", "sagemaker_human_task_ui"}

TheId == "id-1"

NoObj == [lifecycle |-> "<nil>", actions |-> <<>>]
Obj(s) == [lifecycle |-> s, actions |-> <<>>]

NoErr == [cause |-> "nil", named |-> FALSE]
NoWait == [outcome |-> "none", obj |-> NoObj, err |-> "nil"]
NoProbe == [fn |-> "none", input |-> [err |-> "nil", obj |-> NoObj], action |-> "", out |-> [obj |-> NoObj, status |-> "", err |-> "nil"]]

\* lifecycle statuses the remote object of a resource type can report
Statuses(k) ==
    CASE k \in {"fsx_ontap_file_system", "fsx_backup"} ->
             {"CREATING", "AVAILABLE", "UPDATING", "DELETING", "FAILED"}
      [] k = "control_panel" -> {"PENDING", "DEPLOYED", "PENDING_DELETION"}
      [] k = "placement_group" -> {"pending", "available", "deleting"}
      [] k = "connect_instance" -> {"CREATION_IN_PROGRESS", "ACTIVE", "CREATION_FAILED"}
      [] OTHER -> {"ACTIVE"}

\* what a finder or a describe call can answer for the remote object
Lookups(rem) ==
    {[err |-> e, obj |-> NoObj] : e \in {"other", "throttling"}} \cup
    (IF rem = "absent" THEN {[err |-> "notfound", obj |-> NoObj]}
                       ELSE {[err |-> "nil", obj |-> Obj(rem)]})

\* tfresource.NotFound(err) / tfawserr.ErrCodeEquals(err, <not found code>)
NotFound(e) == e = "notfound"

\* the code and the message of the errors the remote API answers with
ErrCode(e) ==
    CASE e \in {"assume", "targets", "validation"} -> "ValidationException"
      [] e = "notfound" -> "ResourceNotFoundException"
      [] e = "accessdenied" -> "AccessDeniedException"
      [] e = "throttling" -> "ThrottlingException"
      [] e = "nil" -> ""
      [] OTHER -> "InternalException"

ErrMessage(e) ==
    CASE e = "assume" -> "cannot be assumed by principal"
      [] e = "targets" -> "Rule can't be deleted since it has targets"
      [] e = "validation" -> "Parameter is not valid"
      [] OTHER -> ""

\* tfawserr.ErrCodeEquals / tfawserr.ErrMessageContains
ErrCodeEquals(e, code) == e # "nil" /\ ErrCode(e) = code
ErrMessageContains(e, code, message) ==
    e # "nil" /\ ErrCode(e) = code /\ ErrMessage(e) = message

\* tfresource.TimedOut(err)
TimedOut(e) == e = "timeout"

(***************************************************************************)
(* Composite resource IDs.  A string is the sequence of its characters.    *)
(***************************************************************************)
Chars == {"a", "/"}
Strings(n) == UNION {[1..m -> Chars] : m \in 0..n}

\* strings.Index: the position of the first sep in s, 0 when there is none
Index(s, sep) ==
    IF \E i \in 1..Len(s) : s[i] = sep
    THEN CHOOSE i \in 1..Len(s) : s[i] = sep /\ \A j \in 1..(i - 1) : s[j] # sep
    ELSE 0

\* strings.SplitN for n > 0: at most n substrings, the last one the unsplit rest
RECURSIVE SplitN(_, _, _)
SplitN(s, sep, n) ==
    IF n = 1 \/ Index(s, sep) = 0 THEN <<s>>
    ELSE <<SubSeq(s, 1, Index(s, sep) - 1)>>
         \o SplitN(SubSeq(s, Index(s, sep) + 1, Len(s)), sep, n - 1)

\* fmt.Sprintf("%s/%s/%s/%s", ...)
Sprintf4(a, b, c, e) == a \o <<"/">> \o b \o <<"/">> \o c \o <<"/">> \o e

NoParts == <<<<>>, <<>>, <<>>, <<>>>>

\* ParseID accepting an ID with fewer than four parts
resourceAwsQuickSightGroupMembershipParseIDNoCount(id) ==
    LET parts == SplitN(id, "/", 4)
    IN  IF \E i \in 1..Len(parts) : parts[i] = <<>>
        THEN [parts |-> NoParts, err |-> "format"]
        ELSE [parts |-> parts \o [i \in 1..(4 - Len(parts)) |-> <<>>], err |-> "nil"]

\* err "format": unexpected format of ID, expected AWS_ACCOUNT_ID/NAMESPACE/GROUP_NAME/USER_NAME
resourceAwsQuickSightGroupMembershipParseID(id) ==
    LET parts == SplitN(id, "/", 4)
    IN  IF Len(parts) < 4 \/ parts[1] = <<>> \/ parts[2] = <<>> \/ parts[3] = <<>>
           \/ parts[4] = <<>>
        THEN [parts |-> NoParts, err |-> "format"]
        ELSE [parts |-> parts, err |-> "nil"]

\* the characters of the ID a Create sets
IdText == Sprintf4(<<"1">>, <<"d">>, <<"g">>, <<"u">>)

(***************************************************************************)
(* Status functions (internal/service/*/waiter/status.go)                  *)
(***************************************************************************)
BackupStatus(r) ==
    IF NotFound(r.err) THEN [obj |-> NoObj, status |-> "", err |-> "nil"]
    ELSE IF r.err # "nil" THEN [obj |-> NoObj, status |-> "", err |-> r.err]
    ELSE [obj |-> r.obj, status |-> r.obj.lifecycle, err |-> "nil"]

\* FileSystemStatus returning the status without the file system it read
FileSystemStatusNoObject(r) ==
    IF NotFound(r.err) THEN [obj |-> NoObj, status |-> "", err |-> "nil"]
    ELSE IF r.err # "nil" THEN [obj |-> NoObj, status |-> "", err |-> r.err]
    ELSE [obj |-> NoObj, status |-> r.obj.lifecycle, err |-> "nil"]

FileSystemStatus(r) ==
    IF NotFound(r.err) THEN [obj |-> NoObj, status |-> "", err |-> "nil"]
    ELSE IF r.err # "nil" THEN [obj |-> NoObj, status |-> "", err |-> r.err]
    ELSE [obj |-> r.obj, status |-> r.obj.lifecycle, err |-> "nil"]

\* index of the first non-nil action of the requested type, 0 when there is none
RECURSIVE FirstAction(_, _, _)
FirstAction(actions, action, i) ==
    IF i > Len(actions) THEN 0
    ELSE IF actions[i].type = "<nil>" THEN FirstAction(actions, action, i + 1)
    ELSE IF actions[i].type = action THEN i
    ELSE FirstAction(actions, action, i + 1)

\* FileSystemAdministrativeActionsStatus passing a finder error on with the COMPLETED status
FileSystemAdministrativeActionsStatusKeepsStatus(r, action) ==
    IF NotFound(r.err) THEN [obj |-> NoObj, status |-> "", err |-> "nil"]
    ELSE IF r.err # "nil" THEN [obj |-> NoObj, status |-> "COMPLETED", err |-> r.err]
    ELSE LET i == FirstAction(r.obj.actions, action, 1)
         IN  IF i > 0 THEN [obj |-> r.obj, status |-> r.obj.actions[i].status, err |-> "nil"]
             ELSE [obj |-> r.obj, status |-> "COMPLETED", err |-> "nil"]

\* FileSystemAdministrativeActionsStatus taking the first non-nil action of any type
FileSystemAdministrativeActionsStatusAnyType(r, action) ==
    IF NotFound(r.err) THEN [obj |-> NoObj, status |-> "", err |-> "nil"]
    ELSE IF r.err # "nil" THEN [obj |-> NoObj, status |-> "", err |-> r.err]
    ELSE LET i == IF r.obj.actions = <<>> THEN 0
                  ELSE FirstAction(r.obj.actions, r.obj.actions[Len(r.obj.actions)].type, 1)
         IN  IF i > 0 THEN [obj |-> r.obj, status |-> r.obj.actions[i].status, err |-> "nil"]
             ELSE [obj |-> r.obj, status |-> "COMPLETED", err |-> "nil"]

FileSystemAdministrativeActionsStatus(r, action) ==
    IF NotFound(r.err) THEN [obj |-> NoObj, status |-> "", err |-> "nil"]
    ELSE IF r.err # "nil" THEN [obj |-> NoObj, status |-> "", err |-> r.err]
    ELSE LET i == FirstAction(r.obj.actions, action, 1)
         IN  IF i > 0 THEN [obj |-> r.obj, status |-> r.obj.actions[i].status, err |-> "nil"]
             ELSE [obj |-> r.obj, status |-> "COMPLETED", err |-> "nil"]

OperationStatus(r) ==
    IF NotFound(r.err) THEN [obj |-> NoObj, status |-> "", err |-> "nil"]
    ELSE IF r.err # "nil" THEN [obj |-> NoObj, status |-> "", err |-> r.err]
    ELSE [obj |-> r.obj, status |-> r.obj.lifecycle, err |-> "nil"]

\* status function of the Route53 Recovery Control Config waiters: the describe
\* call's not-found either reads as an empty status or is passed on as the error
ControlPanelStatus(r) ==
    IF r.err # "nil"
    THEN {[obj |-> NoObj, status |-> "", err |-> r.err]} \cup
         (IF NotFound(r.err) THEN {[obj |-> NoObj, status |-> "", err |-> "nil"]} ELSE {})
    ELSE {[obj |-> r.obj, status |-> r.obj.lifecycle, err |-> "nil"]}

\* status function of the EC2 placement group and Connect instance waiters
StatusByContract(r) ==
    IF NotFound(r.err) THEN [obj |-> NoObj, status |-> "", err |-> "nil"]
    ELSE IF r.err # "nil" THEN [obj |-> NoObj, status |-> "", err |-> r.err]
    ELSE [obj |-> r.obj, status |-> r.obj.lifecycle, err |-> "nil"]

\* the results a poll of the waiter of resource type k can give
Refresh(k, r) ==
    CASE k = "fsx_ontap_file_system" -> {FileSystemStatus(r)}
      [] k = "fsx_backup" -> {BackupStatus(r)}
      [] k = "control_panel" -> ControlPanelStatus(r)
      [] OTHER -> {StatusByContract(r)}

(***************************************************************************)
(* Waiters: the pending and target statuses each waiter polls for, and the *)
(* waiter contract (target -> success, failure -> error, timeout -> error, *)
(* polling error -> propagate, not-found -> keep polling unless not-found  *)
(* is the target).                                                         *)
(***************************************************************************)
WaiterConf(k, o) ==
    CASE k \in {"fsx_ontap_file_system", "fsx_backup"} /\ o = "create" ->
             [pending |-> {"CREATING"}, target |-> {"AVAILABLE"}, absent |-> FALSE]
      [] k \in {"fsx_ontap_file_system", "fsx_backup"} /\ o = "update" ->
             [pending |-> {"UPDATING"}, target |-> {"AVAILABLE"}, absent |-> FALSE]
      [] k \in {"fsx_ontap_file_system", "fsx_backup"} /\ o = "delete" ->
             [pending |-> {"AVAILABLE", "DELETING"}, target |-> {}, absent |-> TRUE]
      [] k = "control_panel" /\ o = "delete" ->
             [pending |-> {"PENDING_DELETION"}, target |-> {}, absent |-> TRUE]
      [] k = "control_panel" ->
             [pending |-> {"PENDING"}, target |-> {"DEPLOYED"}, absent |-> FALSE]
      [] k = "placement_group" /\ o = "delete" ->
             [pending |-> {"deleting"}, target |-> {}, absent |-> TRUE]
      [] k = "placement_group" ->
             [pending |-> {"pending"}, target |-> {"available"}, absent |-> FALSE]
      [] k = "connect_instance" /\ o = "delete" ->
             [pending |-> {"ACTIVE"}, target |-> {}, absent |-> TRUE]
      [] OTHER ->
             [pending |-> {"CREATION_IN_PROGRESS"}, target |-> {"ACTIVE"}, absent |-> FALSE]

\* the failure statuses of a waiter: every status it neither waits through nor waits for
Failure(k, o) == Statuses(k) \ (WaiterConf(k, o).pending \cup WaiterConf(k, o).target)

\* what one poll result p means to a waiter: "target", "failure", "error" or "continue"
WaitOutcome(k, o, p) ==
    IF p.err # "nil" THEN "error"
    ELSE IF p.status = "" THEN (IF WaiterConf(k, o).absent THEN "target" ELSE "continue")
    ELSE IF p.status \in WaiterConf(k, o).target THEN "target"
    ELSE IF p.status \in Failure(k, o) THEN "failure"
    ELSE "continue"

\* the waiter's return value once a poll p ended it with outcome w
WaitReturn(w, p) ==
    CASE w = "target" -> [outcome |-> "target", obj |-> p.obj, err |-> "nil"]
      [] w = "failure" -> [outcome |-> "failure", obj |-> p.obj, err |-> "failure"]
      [] w = "error" -> [outcome |-> "error", obj |-> NoObj, err |-> p.err]
      [] OTHER -> [outcome |-> "timeout", obj |-> NoObj, err |-> "timeout"]

(***************************************************************************)
(* Handler steps.  A handler is entered at phase "call" with the error of  *)
(* its API call, and re-entered at phase "waited" with the waiter's error. *)
(* It answers with where it goes next, whether it set the ID, and what it  *)
(* returned.  A handler that retries its call is at phase "call" for every *)
(* attempt inside resource.Retry, at phase "retried" with what Retry       *)
(* returned once its window expired, and at phase "final" with the error   *)
(* of the attempt it makes after the loop.                                 *)
(***************************************************************************)
\* tfec2.UnsuccessfulItemsError: nil for an empty list, else an error carrying
\* the failed item's code
UnsuccessfulItemsError(items) == IF items = <<>> THEN "nil" ELSE items[1]
Goto(n) == [next |-> n, setId |-> FALSE, ret |-> "none", err |-> NoErr]
SetIdGoto(n) == [next |-> n, setId |-> TRUE, ret |-> "none", err |-> NoErr]
Return == [next |-> "done", setId |-> FALSE, ret |-> "ok", err |-> NoErr]
Fail(cause, named) ==
    [next |-> "done", setId |-> FALSE, ret |-> "err", err |-> [cause |-> cause, named |-> named]]

(***************************************************************************)
(* Create handlers                                                         *)
(***************************************************************************)
resourceAwsFsxOntapFileSystemCreate(phase, x) ==
    CASE phase = "call" -> (IF x # "nil" THEN Fail("call", FALSE) ELSE SetIdGoto("wait"))
      [] OTHER -> (IF x # "nil" THEN Fail(x, TRUE) ELSE Goto("read"))

\* FSx backup Create going on to Read whatever the waiter returned
resourceAwsFsxBackupCreateIgnoresWaiter(phase, x) ==
    CASE phase = "call" -> (IF x # "nil" THEN Fail("call", FALSE) ELSE SetIdGoto("wait"))
      [] OTHER -> Goto("read")

resourceAwsFsxBackupCreate(phase, x) ==
    CASE phase = "call" -> (IF x # "nil" THEN Fail("call", FALSE) ELSE SetIdGoto("wait"))
      [] OTHER -> (IF x # "nil" THEN Fail(x, TRUE) ELSE Goto("read"))

\* control panel Create going on to Read when the waiter timed out
resourceAwsRoute53RecoveryControlConfigControlPanelCreateReadsOnTimeout(phase, x) ==
    CASE phase = "call" -> (IF x = "empty" THEN Fail("empty", FALSE)
                            ELSE IF x # "nil" THEN Fail("call", FALSE)
                            ELSE SetIdGoto("wait"))
      [] OTHER -> (IF x # "nil" /\ x # "timeout" THEN Fail(x, TRUE) ELSE Goto("read"))

resourceAwsRoute53RecoveryControlConfigControlPanelCreate(phase, x) ==
    CASE phase = "call" -> (IF x = "empty" THEN Fail("empty", FALSE)
                            ELSE IF x # "nil" THEN Fail("call", FALSE)
                            ELSE SetIdGoto("wait"))
      [] OTHER -> (IF x # "nil" THEN Fail(x, TRUE) ELSE Goto("read"))

resourceAwsPlacementGroupCreate(phase, x) ==
    CASE phase = "call" -> (IF x # "nil" THEN Fail("call", FALSE) ELSE SetIdGoto("wait"))
      [] OTHER -> (IF x # "nil" THEN Fail(x, TRUE) ELSE Goto("read"))

\* phase "attrs": x is the error of the UpdateInstanceAttribute loop
resourceAwsConnectInstanceCreate(phase, x) ==
    CASE phase = "call" -> (IF x # "nil" THEN Fail("call", FALSE) ELSE SetIdGoto("wait"))
      [] phase = "waited" -> (IF x # "nil" THEN Fail(x, TRUE) ELSE Goto("attrs"))
      [] OTHER -> (IF x = "accessdenied" THEN Goto("read")
                   ELSE IF x # "nil" THEN Fail("attrs", TRUE)
                   ELSE Goto("read"))

resourceAwsShieldProtectionGroupCreate(phase, x) ==
    IF x # "nil" THEN Fail("call", FALSE) ELSE SetIdGoto("read")

resourceAwsEfsFileSystemPolicyPut(phase, x) ==
    IF x # "nil" THEN Fail("call", FALSE) ELSE SetIdGoto("read")

resourceAwsRoute53QueryLogCreate(phase, x) ==
    IF x # "nil" THEN Fail("call", FALSE) ELSE SetIdGoto("read")

resourceAwsQuickSightGroupMembershipCreate(phase, x) ==
    IF x # "nil" THEN Fail("call", FALSE) ELSE SetIdGoto("read")

\* event rule Create retrying PutRule on every ValidationException
resourceAwsCloudWatchEventRuleCreateRetriesValidation(phase, x) ==
    CASE phase = "call" ->
             (IF ErrCodeEquals(x, "ValidationException") THEN Goto("retry")
              ELSE IF x # "nil" THEN Fail("call", FALSE)
              ELSE SetIdGoto("read"))
      [] phase = "retried" -> (IF TimedOut(x) THEN Goto("final") ELSE Fail("call", FALSE))
      [] OTHER -> (IF x # "nil" THEN Fail("call", FALSE) ELSE SetIdGoto("read"))

resourceAwsCloudWatchEventRuleCreate(phase, x) ==
    CASE phase = "call" ->
             (IF ErrMessageContains(x, "ValidationException", "cannot be assumed by principal")
              THEN Goto("retry")
              ELSE IF x # "nil" THEN Fail("call", FALSE)
              ELSE SetIdGoto("read"))
      [] phase = "retried" -> (IF TimedOut(x) THEN Goto("final") ELSE Fail("call", FALSE))
      [] OTHER -> (IF x # "nil" THEN Fail("call", FALSE) ELSE SetIdGoto("read"))

\* Flow Log Create looking at the call's error only
resourceAwsLogFlowCreateIgnoresUnsuccessful(phase, x) ==
    IF x.err # "nil" THEN Fail("call", FALSE) ELSE SetIdGoto("read")

\* x is the response of CreateFlowLogs: [err, unsuccessful]
resourceAwsLogFlowCreate(phase, x) ==
    LET e == IF x.err = "nil" THEN UnsuccessfulItemsError(x.unsuccessful) ELSE x.err
    IN  IF e # "nil" THEN Fail("call", FALSE) ELSE SetIdGoto("read")

resourceAwsTransferAccessCreate(phase, x) ==
    IF x # "nil" THEN Fail("call", FALSE) ELSE SetIdGoto("read")

resourceAwsSagemakerHumanTaskUiCreate(phase, x) ==
    IF x # "nil" THEN Fail("call", FALSE) ELSE SetIdGoto("read")

\* schema.Resource.Create of resource type k
CreateHandler(k, phase, x) ==
    CASE k = "fsx_ontap_file_system" -> resourceAwsFsxOntapFileSystemCreate(phase, x)
      [] k = "fsx_backup" -> resourceAwsFsxBackupCreate(phase, x)
      [] k = "control_panel" -> resourceAwsRoute53RecoveryControlConfigControlPanelCreate(phase, x)
      [] k = "placement_group" -> resourceAwsPlacementGroupCreate(phase, x)
      [] k = "connect_instance" -> resourceAwsConnectInstanceCreate(phase, x)
      [] k = "shield_protection_group" -> resourceAwsShieldProtectionGroupCreate(phase, x)
      [] k = "efs_file_system_policy" -> resourceAwsEfsFileSystemPolicyPut(phase, x)
      [] k = "route53_query_log" -> resourceAwsRoute53QueryLogCreate(phase, x)
      [] k = "quicksight_group_membership" -> resourceAwsQuickSightGroupMembershipCreate(phase, x)
      [] k = "cloudwatch_event_rule" -> resourceAwsCloudWatchEventRuleCreate(phase, x)
      [] k = "flow_log" -> resourceAwsLogFlowCreate(phase, x)
      [] k = "transfer_access" -> resourceAwsTransferAccessCreate(phase, x)
      [] OTHER -> resourceAwsSagemakerHumanTaskUiCreate(phase, x)

(***************************************************************************)
(* Read handlers.  q is what the lookup answered: [err, obj], whether the  *)
(* answer was an empty response (empty), and the error of the handler's    *)
(* second call, ListTags or DescribeInstanceAttribute (aux).               *)
(***************************************************************************)
\* d.SetId(""); return nil
DropFromState(dd) ==
    [d |-> [dd EXCEPT !.id = "", !.text = <<>>], ret |-> "ok", err |-> NoErr]
\* return fmt.Errorf(...)
ReadFail(dd, cause, named) ==
    [d |-> dd, ret |-> "err", err |-> [cause |-> cause, named |-> named]]
\* the d.Set calls; return nil
ReadStore(dd, q) == [d |-> [dd EXCEPT !.attrs = q.obj.lifecycle], ret |-> "ok", err |-> NoErr]

resourceAwsFsxOntapFileSystemRead(dd, q) ==
    IF ~dd.isNew /\ NotFound(q.err) THEN DropFromState(dd)
    ELSE IF q.err # "nil" THEN ReadFail(dd, q.err, TRUE)
    ELSE IF q.empty THEN ReadFail(dd, "empty", TRUE)
    ELSE ReadStore(dd, q)

resourceAwsFsxBackupRead(dd, q) ==
    IF ~dd.isNew /\ NotFound(q.err) THEN DropFromState(dd)
    ELSE IF q.err # "nil" THEN ReadFail(dd, q.err, TRUE)
    ELSE ReadStore(dd, q)

resourceAwsRoute53RecoveryControlConfigControlPanelRead(dd, q) ==
    IF ~dd.isNew /\ NotFound(q.err) THEN DropFromState(dd)
    ELSE IF q.err # "nil" THEN ReadFail(dd, q.err, FALSE)
    ELSE IF q.empty THEN ReadFail(dd, "empty", FALSE)
    ELSE ReadStore(dd, q)

resourceAwsPlacementGroupRead(dd, q) ==
    IF ~dd.isNew /\ NotFound(q.err) THEN DropFromState(dd)
    ELSE IF q.err # "nil" THEN ReadFail(dd, q.err, TRUE)
    ELSE ReadStore(dd, q)

resourceAwsConnectInstanceRead(dd, q) ==
    IF ~dd.isNew /\ NotFound(q.err) THEN DropFromState(dd)
    ELSE IF q.err # "nil" THEN ReadFail(dd, q.err, TRUE)
    ELSE IF q.aux # "nil" THEN ReadFail(ReadStore(dd, q).d, "aux", TRUE)
    ELSE ReadStore(dd, q)

\* Shield protection group Read returning the not-found error of an existing resource
resourceAwsShieldProtectionGroupReadNoDrop(dd, q) ==
    IF q.err # "nil" THEN ReadFail(dd, q.err, TRUE)
    ELSE IF q.aux # "nil" THEN ReadFail(ReadStore(dd, q).d, "aux", TRUE)
    ELSE ReadStore(dd, q)

resourceAwsShieldProtectionGroupRead(dd, q) ==
    IF ~dd.isNew /\ NotFound(q.err) THEN DropFromState(dd)
    ELSE IF q.err # "nil" THEN ReadFail(dd, q.err, TRUE)
    ELSE IF q.aux # "nil" THEN ReadFail(ReadStore(dd, q).d, "aux", TRUE)
    ELSE ReadStore(dd, q)

resourceAwsEfsFileSystemPolicyRead(dd, q) ==
    IF ~dd.isNew /\ NotFound(q.err) THEN DropFromState(dd)
    ELSE IF q.err # "nil" THEN ReadFail(dd, q.err, TRUE)
    ELSE ReadStore(dd, q)

resourceAwsRoute53QueryLogRead(dd, q) ==
    IF q.err # "nil"
    THEN (IF NotFound(q.err) THEN DropFromState(dd) ELSE ReadFail(dd, q.err, FALSE))
    ELSE ReadStore(dd, q)

resourceAwsQuickSightGroupMembershipRead(dd, q) ==
    IF resourceAwsQuickSightGroupMembershipParseID(dd.text).err # "nil"
    THEN ReadFail(dd, "format", TRUE)
    ELSE IF q.err # "nil" /\ ~NotFound(q.err) THEN ReadFail(dd, q.err, TRUE)
    ELSE IF NotFound(q.err) THEN DropFromState(dd)
    ELSE ReadStore(dd, q)

resourceAwsCloudWatchEventRuleRead(dd, q) ==
    IF ~dd.isNew /\ NotFound(q.err) THEN DropFromState(dd)
    ELSE IF q.err # "nil" THEN ReadFail(dd, q.err, TRUE)
    ELSE IF q.aux # "nil" THEN ReadFail(ReadStore(dd, q).d, "aux", TRUE)
    ELSE ReadStore(dd, q)

resourceAwsLogFlowRead(dd, q) ==
    IF ~dd.isNew /\ NotFound(q.err) THEN DropFromState(dd)
    ELSE IF q.err # "nil" THEN ReadFail(dd, q.err, TRUE)
    ELSE ReadStore(dd, q)

resourceAwsTransferAccessRead(dd, q) ==
    IF ~dd.isNew /\ NotFound(q.err) THEN DropFromState(dd)
    ELSE IF q.err # "nil" THEN ReadFail(dd, q.err, TRUE)
    ELSE ReadStore(dd, q)

resourceAwsSagemakerHumanTaskUiRead(dd, q) ==
    IF ~dd.isNew /\ NotFound(q.err) THEN DropFromState(dd)
    ELSE IF q.err # "nil" THEN ReadFail(dd, q.err, TRUE)
    ELSE IF q.aux # "nil" THEN ReadFail(ReadStore(dd, q).d, "aux", TRUE)
    ELSE ReadStore(dd, q)

\* schema.Resource.Read of resource type k
ReadHandler(k, dd, q) ==
    CASE k = "fsx_ontap_file_system" -> resourceAwsFsxOntapFileSystemRead(dd, q)
      [] k = "fsx_backup" -> resourceAwsFsxBackupRead(dd, q)
      [] k = "control_panel" -> resourceAwsRoute53RecoveryControlConfigControlPanelRead(dd, q)
      [] k = "placement_group" -> resourceAwsPlacementGroupRead(dd, q)
      [] k = "connect_instance" -> resourceAwsConnectInstanceRead(dd, q)
      [] k = "shield_protection_group" -> resourceAwsShieldProtectionGroupRead(dd, q)
      [] k = "efs_file_system_policy" -> resourceAwsEfsFileSystemPolicyRead(dd, q)
      [] k = "route53_query_log" -> resourceAwsRoute53QueryLogRead(dd, q)
      [] k = "quicksight_group_membership" -> resourceAwsQuickSightGroupMembershipRead(dd, q)
      [] k = "cloudwatch_event_rule" -> resourceAwsCloudWatchEventRuleRead(dd, q)
      [] k = "flow_log" -> resourceAwsLogFlowRead(dd, q)
      [] k = "transfer_access" -> resourceAwsTransferAccessRead(dd, q)
      [] OTHER -> resourceAwsSagemakerHumanTaskUiRead(dd, q)

(***************************************************************************)
(* Delete handlers                                                         *)
(***************************************************************************)
resourceAwsFsxOntapFileSystemDelete(phase, x) ==
    CASE phase = "call" -> (IF NotFound(x) THEN Return
                            ELSE IF x # "nil" THEN Fail("call", TRUE)
                            ELSE Goto("wait"))
      [] OTHER -> (IF x # "nil" THEN Fail(x, TRUE) ELSE Return)

resourceAwsFsxBackupDelete(phase, x) ==
    CASE phase = "call" -> (IF x # "nil"
                            THEN (IF NotFound(x) THEN Return ELSE Fail("call", TRUE))
                            ELSE Goto("wait"))
      [] OTHER -> (IF x # "nil" THEN Fail(x, TRUE) ELSE Return)

\* control panel Delete without the not-found check on the waiter's error
resourceAwsRoute53RecoveryControlConfigControlPanelDeleteNoCheck(phase, x) ==
    CASE phase = "call" -> (IF NotFound(x) THEN Return
                            ELSE IF x # "nil" THEN Fail("call", FALSE)
                            ELSE Goto("wait"))
      [] OTHER -> (IF x # "nil" THEN Fail(x, TRUE) ELSE Return)

resourceAwsRoute53RecoveryControlConfigControlPanelDelete(phase, x) ==
    CASE phase = "call" -> (IF NotFound(x) THEN Return
                            ELSE IF x # "nil" THEN Fail("call", FALSE)
                            ELSE Goto("wait"))
      [] OTHER -> (IF NotFound(x) THEN Return
                   ELSE IF x # "nil" THEN Fail(x, TRUE)
                   ELSE Return)

\* placement group Delete taking the waiter's result for an error
resourceAwsPlacementGroupDeleteInverted(phase, x) ==
    CASE phase = "call" -> (IF NotFound(x) THEN Return
                            ELSE IF x # "nil" THEN Fail("call", TRUE)
                            ELSE Goto("wait"))
      [] OTHER -> (IF x = "nil" THEN Fail("waited", TRUE) ELSE Return)

resourceAwsPlacementGroupDelete(phase, x) ==
    CASE phase = "call" -> (IF NotFound(x) THEN Return
                            ELSE IF x # "nil" THEN Fail("call", TRUE)
                            ELSE Goto("wait"))
      [] OTHER -> (IF x # "nil" THEN Fail(x, TRUE) ELSE Return)

resourceAwsConnectInstanceDelete(phase, x) ==
    CASE phase = "call" -> (IF NotFound(x) THEN Return
                            ELSE IF x # "nil" THEN Fail("call", TRUE)
                            ELSE Goto("wait"))
      [] OTHER -> (IF x # "nil" THEN Fail(x, TRUE) ELSE Return)

\* Shield protection group Delete without the not-found check
resourceAwsShieldProtectionGroupDeleteNoCheck(phase, x) ==
    IF x # "nil" THEN Fail("call", TRUE) ELSE Return

resourceAwsShieldProtectionGroupDelete(phase, x) ==
    IF NotFound(x) THEN Return ELSE IF x # "nil" THEN Fail("call", TRUE) ELSE Return

resourceAwsEfsFileSystemPolicyDelete(phase, x) ==
    IF NotFound(x) THEN Return ELSE IF x # "nil" THEN Fail("call", TRUE) ELSE Return

resourceAwsRoute53QueryLogDelete(phase, x) ==
    IF NotFound(x) THEN Return ELSE IF x # "nil" THEN Fail("call", TRUE) ELSE Return

\* x is [id, err]: the characters of d.Id() and the error of the delete call
resourceAwsQuickSightGroupMembershipDelete(phase, x) ==
    IF resourceAwsQuickSightGroupMembershipParseID(x.id).err # "nil" THEN Fail("format", TRUE)
    ELSE IF x.err # "nil" THEN (IF NotFound(x.err) THEN Return ELSE Fail("call", TRUE))
    ELSE Return

\* event rule Delete repeating the attempt it makes after the loop
resourceAwsCloudWatchEventRuleDeleteRetriesOutside(phase, x) ==
    CASE phase = "call" /\ ErrMessageContains(x, "ValidationException",
                                              "Rule can't be deleted since it has targets") ->
             Goto("retry")
      [] phase = "retried" /\ TimedOut(x) -> Goto("final")
      [] phase = "final" /\ ErrMessageContains(x, "ValidationException",
                                               "Rule can't be deleted since it has targets") ->
             Goto("final")
      [] OTHER -> (IF NotFound(x) THEN Return
                   ELSE IF x # "nil" THEN Fail("call", TRUE)
                   ELSE Return)

resourceAwsCloudWatchEventRuleDelete(phase, x) ==
    CASE phase = "call" /\ ErrMessageContains(x, "ValidationException",
                                              "Rule can't be deleted since it has targets") ->
             Goto("retry")
      [] phase = "retried" /\ TimedOut(x) -> Goto("final")
      [] OTHER -> (IF NotFound(x) THEN Return
                   ELSE IF x # "nil" THEN Fail("call", TRUE)
                   ELSE Return)

\* x is the response of DeleteFlowLogs: [err, unsuccessful]
resourceAwsLogFlowDelete(phase, x) ==
    LET e == IF x.err = "nil" THEN UnsuccessfulItemsError(x.unsuccessful) ELSE x.err
    IN  IF NotFound(e) THEN Return ELSE IF e # "nil" THEN Fail("call", TRUE) ELSE Return

resourceAwsTransferAccessDelete(phase, x) ==
    IF NotFound(x) THEN Return ELSE IF x # "nil" THEN Fail("call", TRUE) ELSE Return

resourceAwsSagemakerHumanTaskUiDelete(phase, x) ==
    IF NotFound(x) THEN Return ELSE IF x # "nil" THEN Fail("call", TRUE) ELSE Return

\* schema.Resource.Delete of resource type k
DeleteHandler(k, phase, x) ==
    CASE k = "fsx_ontap_file_system" -> resourceAwsFsxOntapFileSystemDelete(phase, x)
      [] k = "fsx_backup" -> resourceAwsFsxBackupDelete(phase, x)
      [] k = "control_panel" -> resourceAwsRoute53RecoveryControlConfigControlPanelDelete(phase, x)
      [] k = "placement_group" -> resourceAwsPlacementGroupDelete(phase, x)
      [] k = "connect_instance" -> resourceAwsConnectInstanceDelete(phase, x)
      [] k = "shield_protection_group" -> resourceAwsShieldProtectionGroupDelete(phase, x)
      [] k = "efs_file_system_policy" -> resourceAwsEfsFileSystemPolicyDelete(phase, x)
      [] k = "route53_query_log" -> resourceAwsRoute53QueryLogDelete(phase, x)
      [] k = "quicksight_group_membership" -> resourceAwsQuickSightGroupMembershipDelete(phase, x)
      [] k = "cloudwatch_event_rule" -> resourceAwsCloudWatchEventRuleDelete(phase, x)
      [] k = "flow_log" -> resourceAwsLogFlowDelete(phase, x)
      [] k = "transfer_access" -> resourceAwsTransferAccessDelete(phase, x)
      [] OTHER -> resourceAwsSagemakerHumanTaskUiDelete(phase, x)

(***************************************************************************)
(* Update handlers.  At phase "call" x is [chg, tags, upd]: the changed    *)
(* keys, the error of the tag update call, the error of the update call.   *)
(***************************************************************************)
\* FSx ONTAP Update going on to Read when the waiter timed out
resourceAwsFsxOntapFileSystemUpdateReadsOnTimeout(phase, x) ==
    CASE phase = "call" -> (IF "tags_all" \in x.chg /\ x.tags # "nil" THEN Fail("tags", FALSE)
                            ELSE IF x.chg \ {"tags_all", "tags"} # {}
                                 THEN (IF x.upd # "nil" THEN Fail("call", TRUE) ELSE Goto("wait"))
                                 ELSE Goto("read"))
      [] OTHER -> (IF x # "nil" /\ x # "timeout" THEN Fail(x, TRUE) ELSE Goto("read"))

resourceAwsFsxOntapFileSystemUpdate(phase, x) ==
    CASE phase = "call" -> (IF "tags_all" \in x.chg /\ x.tags # "nil" THEN Fail("tags", FALSE)
                            ELSE IF x.chg \ {"tags_all", "tags"} # {}
                                 THEN (IF x.upd # "nil" THEN Fail("call", TRUE) ELSE Goto("wait"))
                                 ELSE Goto("read"))
      [] OTHER -> (IF x # "nil" THEN Fail(x, TRUE) ELSE Goto("read"))

resourceAwsFsxBackupUpdate(phase, x) ==
    IF "tags_all" \in x.chg /\ x.tags # "nil" THEN Fail("tags", FALSE) ELSE Goto("read")

resourceAwsRoute53RecoveryControlConfigControlPanelUpdate(phase, x) ==
    IF x.upd # "nil" THEN Fail("call", FALSE) ELSE Goto("read")

resourceAwsPlacementGroupUpdate(phase, x) ==
    IF "tags_all" \in x.chg /\ x.tags # "nil" THEN Fail("tags", TRUE) ELSE Goto("read")

\* x.upd is the error of the UpdateInstanceAttribute call of the changed attribute
resourceAwsConnectInstanceUpdate(phase, x) ==
    IF "inbound_calls_enabled" \in x.chg
    THEN (IF (x.upd # "nil" /\ ErrCodeEquals(x.upd, "AccessDeniedException"))
              \/ ErrMessageContains(x.upd, "AccessDeniedException", "not authorized to update")
          THEN Return
          ELSE IF x.upd # "nil" THEN Fail("attrs", TRUE)
          ELSE Return)
    ELSE Return

resourceAwsShieldProtectionGroupUpdate(phase, x) ==
    IF x.upd # "nil" THEN Fail("call", TRUE)
    ELSE IF "tags_all" \in x.chg /\ x.tags # "nil" THEN Fail("tags", FALSE)
    ELSE Goto("read")

resourceAwsCloudWatchEventRuleUpdate(phase, x) ==
    CASE phase = "retried" -> (IF TimedOut(x) THEN Goto("final") ELSE Fail("call", TRUE))
      [] phase = "call" /\ ErrMessageContains(x.upd, "ValidationException",
                                              "cannot be assumed by principal") ->
             Goto("retry")
      [] OTHER -> (IF x.upd # "nil" THEN Fail("call", TRUE)
                   ELSE IF "tags_all" \in x.chg /\ x.tags # "nil" THEN Fail("tags", FALSE)
                   ELSE Goto("read"))

resourceAwsLogFlowUpdate(phase, x) ==
    IF "tags_all" \in x.chg /\ x.tags # "nil" THEN Fail("tags", TRUE) ELSE Goto("read")

resourceAwsTransferAccessUpdate(phase, x) ==
    IF x.upd # "nil" THEN Fail("call", TRUE) ELSE Goto("read")

resourceAwsSagemakerHumanTaskUiUpdate(phase, x) ==
    IF "tags_all" \in x.chg /\ x.tags # "nil" THEN Fail("tags", TRUE) ELSE Goto("read")

\* resource types that have an Update
Updatable == Kinds \ {"route53_query_log", "quicksight_group_membership"}

\* schema.Resource.Update of resource type k; at phase "retried" x is what
\* resource.Retry returned
UpdateHandler(k, phase, x) ==
    CASE k = "fsx_ontap_file_system" -> resourceAwsFsxOntapFileSystemUpdate(phase, x)
      [] k = "fsx_backup" -> resourceAwsFsxBackupUpdate(phase, x)
      [] k = "control_panel" -> resourceAwsRoute53RecoveryControlConfigControlPanelUpdate(phase, x)
      [] k = "placement_group" -> resourceAwsPlacementGroupUpdate(phase, x)
      [] k = "connect_instance" -> resourceAwsConnectInstanceUpdate(phase, x)
      [] k = "shield_protection_group" -> resourceAwsShieldProtectionGroupUpdate(phase, x)
      [] k = "efs_file_system_policy" -> resourceAwsEfsFileSystemPolicyPut(phase, x.upd)
      [] k = "cloudwatch_event_rule" -> resourceAwsCloudWatchEventRuleUpdate(phase, x)
      [] k = "flow_log" -> resourceAwsLogFlowUpdate(phase, x)
      [] k = "transfer_access" -> resourceAwsTransferAccessUpdate(phase, x)
      [] OTHER -> resourceAwsSagemakerHumanTaskUiUpdate(phase, x)

\* re-entry of the running handler o of resource type k
Handler(k, o, phase, x) ==
    CASE o = "create" -> CreateHandler(k, phase, x)
      [] o = "update" -> UpdateHandler(k, phase, x)
      [] OTHER -> DeleteHandler(k, phase, x)

(***************************************************************************)
(* The remote API                                                          *)
(***************************************************************************)
\* the response of an accepted create call and of an accepted delete call, as
\* the handler of resource type k takes it
Created(k) == IF k = "flow_log" THEN [err |-> "nil", unsuccessful |-> <<>>] ELSE "nil"
Deleted(k) ==
    CASE k = "flow_log" -> [err |-> "nil", unsuccessful |-> <<>>]
      [] k = "quicksight_group_membership" -> [id |-> IdText, err |-> "nil"]
      [] OTHER -> "nil"

\* answers of the create call: an error, success, or (control panel) an empty
\* response; a batch call answers with its error and its Unsuccessful list
CreateResults(k, rem) ==
    CASE k = "flow_log" ->
             {[err |-> "other", unsuccessful |-> <<>>],
              [err |-> "nil", unsuccessful |-> <<"other">>]} \cup
             (IF rem = "absent" THEN {[err |-> "nil", unsuccessful |-> <<>>]} ELSE {})
      [] k = "cloudwatch_event_rule" ->
             {"other", "assume", "validation", "throttling"}
                 \cup (IF rem = "absent" THEN {"nil"} ELSE {})
      [] OTHER ->
             {"other"} \cup
             (IF rem = "absent"
              THEN {"nil"} \cup (IF k = "control_panel" THEN {"empty"} ELSE {})
              ELSE {})

\* answers of the delete and update calls
CallResults(rem) == {"other"} \cup (IF rem = "absent" THEN {"notfound"} ELSE {"nil"})

\* answers of the delete call
DeleteResults(k, rem) ==
    CASE k = "flow_log" ->
             {[err |-> "other", unsuccessful |-> <<>>]} \cup
             (IF rem = "absent"
              THEN {[err |-> "nil", unsuccessful |-> <<"notfound">>],
                    [err |-> "notfound", unsuccessful |-> <<>>]}
              ELSE {[err |-> "nil", unsuccessful |-> <<>>],
                    [err |-> "nil", unsuccessful |-> <<"other">>]})
      [] k = "cloudwatch_event_rule" ->
             CallResults(rem) \cup {"throttling"}
                 \cup (IF rem = "absent" THEN {} ELSE {"targets", "validation"})
      [] OTHER -> CallResults(rem)

\* answers of the update call; PutRule and PutFileSystemPolicy create what is missing
UpdateResults(k, rem) ==
    CASE k = "cloudwatch_event_rule" -> {"nil", "other", "assume", "validation", "throttling"}
      [] k = "efs_file_system_policy" -> {"nil", "other"}
      [] k = "connect_instance" ->
             CallResults(rem) \cup (IF rem = "absent" THEN {} ELSE {"accessdenied"})
      [] OTHER -> CallResults(rem)

\* answers of the tag update call
TagResults(k, rem) == IF k = "cloudwatch_event_rule" THEN {"nil", "other"} ELSE CallResults(rem)

\* the error a response amounts to, and the Unsuccessful list it carries
Outcome(k, x) ==
    IF k # "flow_log" THEN x
    ELSE IF x.err # "nil" THEN x.err
    ELSE IF x.unsuccessful # <<>> THEN x.unsuccessful[1]
    ELSE "nil"
Unsuccessful(k, x) == IF k = "flow_log" THEN x.unsuccessful ELSE <<>>

\* resource types whose Update manages the tags, and whether it calls the tag
\* update for these keys: after the update call, if that succeeded, or on its own
TagKinds == {"fsx_ontap_file_system", "fsx_backup", "placement_group",
             "shield_protection_group", "cloudwatch_event_rule", "flow_log",
             "sagemaker_human_task_ui"}
TagCalled(k, o, keys, u) ==
    /\ o = "update"
    /\ "tags_all" \in keys
    /\ k \in TagKinds
    /\ k \in {"shield_protection_group", "cloudwatch_event_rule"} => u = "nil"

\* the error e of the handler's call c, when it is one
Failed(c, e) == IF e \in {"nil", "none", "empty"} THEN {} ELSE {[api |-> c, err |-> e]}

\* the sets of changed keys an Update of resource type k is called for
ChangeSets(k) ==
    CASE k = "fsx_ontap_file_system" ->
             (SUBSET {"tags_all", "fsx_admin_password", "weekly_maintenance_start_time"}) \ {{}}
      [] k \in {"fsx_backup", "placement_group", "flow_log", "sagemaker_human_task_ui"} ->
             {{"tags"}, {"tags", "tags_all"}}
      [] k = "control_panel" -> {{"name"}}
      [] k = "connect_instance" -> {{"inbound_calls_enabled"}}
      [] k = "shield_protection_group" ->
             {{"aggregation"}, {"aggregation", "tags_all"}, {"tags", "tags_all"}}
      [] k = "efs_file_system_policy" -> {{"policy"}}
      [] k = "cloudwatch_event_rule" ->
             {{"description"}, {"description", "tags_all"}, {"tags", "tags_all"}}
      [] OTHER -> {{"role"}, {"policy"}, {"role", "policy"}}

\* whether the Update of resource type k issues its update call for these keys
UpdateCalls(k, keys) ==
    CASE k = "fsx_ontap_file_system" -> keys \ {"tags_all", "tags"} # {}
      [] k \in {"fsx_backup", "placement_group", "flow_log", "sagemaker_human_task_ui"} -> FALSE
      [] OTHER -> TRUE

\* the attributes the input of the update call of resource type k carries,
\* besides the identifiers of the object, when Update is called for these keys
UpdateInput(k, keys) ==
    CASE k = "fsx_ontap_file_system" ->
             keys \cap {"automatic_backup_retention_days", "daily_automatic_backup_start_time",
                        "fsx_admin_password", "weekly_maintenance_start_time"}
      [] k = "transfer_access" ->
             keys \cap {"home_directory", "home_directory_mappings", "home_directory_type",
                        "policy", "posix_profile", "role"}
      [] k = "control_panel" -> {"name"}
      [] k = "connect_instance" -> keys \cap {"inbound_calls_enabled"}
      [] k = "shield_protection_group" -> {"aggregation", "pattern"}
      [] k = "efs_file_system_policy" -> {"policy"}
      [] k = "cloudwatch_event_rule" -> {"description", "is_enabled"}
      [] OTHER -> {}

\* what the lookup of a Read and the handler's second call answer
ReadInputs(rem) ==
    {[err |-> l.err, obj |-> l.obj, empty |-> e, aux |-> a] :
        l \in Lookups(rem), e \in BOOLEAN, a \in {"nil", "other"}}

\* the remote object right after an accepted delete call
Deleting(k) ==
    IF DeleteHandler(k, "call", Deleted(k)).next = "wait"
    THEN {"absent"} \cup WaiterConf(k, "delete").pending
    ELSE {"absent"}

Fresh == [id |-> "", isNew |-> FALSE, attrs |-> "none", text |-> <<>>]
Imported == [id |-> TheId, isNew |-> FALSE, attrs |-> "none", text |-> IdText]
NoPre == [id |-> "", attrs |-> "none", again |-> FALSE, gone |-> FALSE]
NoCalls == [api |-> 0, lookups |-> 0, read |-> "none"]
NoRetry == [tries |-> <<>>, out |-> "none", outside |-> <<>>]
NoParsed == [parts |-> NoParts, err |-> "none"]
NoIdc == [parts |-> NoParts, id |-> <<>>, built |-> FALSE, parsed |-> NoParsed,
          op |-> "none", ret |-> "none", cause |-> "nil", api |-> 0]
NoDs == [pages |-> <<>>, failAt |-> 0, next |-> 1, clusters |-> <<>>, pc |-> "none",
         ret |-> "none", id |-> "", names |-> {}]
NoCf == [pc |-> "none", name |-> "", contact_flow_id |-> ""]
NoAt == [pc |-> "none"]
NoDiff == [pc |-> "none"]

\* resource types whose handlers call the API inside resource.Retry
Retries == {"cloudwatch_event_rule"}
\* the retry a handler starts with its first attempt, answered with error e
Tried(k, o, e) ==
    IF k \in Retries /\ o \in {"create", "update", "delete"}
    THEN [NoRetry EXCEPT !.tries = <<e>>]
    ELSE NoRetry

(***************************************************************************)
(* Specification of the handlers                                           *)
(***************************************************************************)
Init ==
    /\ kind \in Kinds
    /\ remote \in {"absent"} \cup Statuses(kind)
    /\ d \in {Fresh, Imported}
    /\ pre = NoPre
    /\ op = "none"
    /\ pc = "idle"
    /\ ret = "none"
    /\ err = NoErr
    /\ call = "none"
    /\ polls = <<>>
    /\ elapsed = 0
    /\ waitOut = NoWait
    /\ calls = NoCalls
    /\ stale = FALSE
    /\ again = FALSE
    /\ probe = NoProbe
    /\ retry = NoRetry
    /\ chg = {}
    /\ batch = <<>>
    /\ errs = {}
    /\ idc = NoIdc
    /\ ds = NoDs
    /\ cf = NoCf
    /\ at = NoAt
    /\ diff = NoDiff

\* the handler is entered: its bookkeeping starts afresh
Enter(o) ==
    /\ op' = o
    /\ pre' = [id |-> d.id, attrs |-> d.attrs, again |-> again, gone |-> remote = "absent"]
    /\ polls' = <<>>
    /\ elapsed' = 0
    /\ waitOut' = NoWait
    /\ stale' = FALSE
    /\ again' = FALSE
    /\ UNCHANGED <<kind, probe, idc, ds, cf, at, diff>>

\* the handler moves on as its step st says
Step(st) ==
    /\ pc' = st.next
    /\ ret' = st.ret
    /\ err' = st.err

\* d after a step that may have set the ID
WithId(dd, st) == IF st.setId THEN [dd EXCEPT !.id = TheId, !.text = IdText] ELSE dd

\* Create is called for a resource that has no ID yet
Create ==
    /\ pc = "idle"
    /\ d.id = ""
    /\ \E x \in CreateResults(kind, remote) :
         LET st == CreateHandler(kind, "call", x)
         IN  /\ Enter("create")
             /\ Step(st)
             /\ call' = Outcome(kind, x)
             /\ d' = WithId([d EXCEPT !.isNew = TRUE], st)
             /\ IF Outcome(kind, x) = "nil" THEN remote' \in Statuses(kind)
                                            ELSE remote' = remote
             /\ calls' = [api |-> 1, lookups |-> 0, read |-> "none"]
             /\ retry' = Tried(kind, "create", x)
             /\ chg' = {}
             /\ batch' = Unsuccessful(kind, x)
             /\ errs' = Failed("create", Outcome(kind, x))

\* Update is called with a non-empty set of changed keys
Update ==
    /\ pc = "idle"
    /\ d.id # ""
    /\ kind \in Updatable
    /\ \E keys \in ChangeSets(kind), t \in TagResults(kind, remote),
          u \in UpdateResults(kind, remote) :
         LET x == [chg |-> keys, tags |-> t, upd |-> u]
             st == UpdateHandler(kind, "call", x)
             sent == /\ UpdateCalls(kind, keys)
                     /\ kind = "fsx_ontap_file_system" => ~("tags_all" \in keys /\ t # "nil")
             tagged == TagCalled(kind, "update", keys, IF sent THEN u ELSE "nil")
         IN  /\ Enter("update")
             /\ Step(st)
             /\ call' = IF sent THEN u ELSE "none"
             /\ d' = WithId([d EXCEPT !.isNew = FALSE], st)
             /\ IF sent /\ u = "nil"
                THEN remote' \in (CASE kind = "fsx_ontap_file_system" -> {"UPDATING", "AVAILABLE"}
                                    [] remote = "absent" -> Statuses(kind)
                                    [] OTHER -> {remote})
                ELSE remote' = remote
             /\ calls' = [api |-> (IF tagged THEN 1 ELSE 0) + (IF sent THEN 1 ELSE 0),
                          lookups |-> 0, read |-> "none"]
             /\ retry' = IF sent THEN Tried(kind, "update", u) ELSE NoRetry
             /\ chg' = keys
             /\ batch' = <<>>
             /\ errs' = (IF sent THEN Failed("update", u) ELSE {})
                            \cup (IF tagged THEN Failed("tags", t) ELSE {})

\* Delete is called for a resource that has an ID
Delete ==
    /\ pc = "idle"
    /\ d.id # ""
    /\ \E x \in DeleteResults(kind, remote) :
         LET in == IF kind = "quicksight_group_membership" THEN [id |-> d.text, err |-> x]
                                                           ELSE x
             st == DeleteHandler(kind, "call", in)
         IN  /\ Enter("delete")
             /\ Step(st)
             /\ call' = Outcome(kind, x)
             /\ d' = [d EXCEPT !.isNew = FALSE]
             /\ IF Outcome(kind, x) = "nil" THEN remote' \in Deleting(kind)
                                            ELSE remote' = remote
             /\ calls' = [api |-> 1, lookups |-> 0, read |-> "none"]
             /\ retry' = Tried(kind, "delete", x)
             /\ chg' = {}
             /\ batch' = Unsuccessful(kind, x)
             /\ errs' = Failed("delete", Outcome(kind, x))

\* Read is called to refresh a resource that has an ID
Read ==
    /\ pc = "idle"
    /\ d.id # ""
    /\ \E q \in ReadInputs(remote) :
         LET rr == ReadHandler(kind, [d EXCEPT !.isNew = FALSE], q)
         IN  /\ Enter("read")
             /\ pc' = "done"
             /\ ret' = rr.ret
             /\ err' = rr.err
             /\ d' = rr.d
             /\ call' = q.err
             /\ calls' = [api |-> 0, lookups |-> 1, read |-> q.err]
             /\ errs' = Failed("lookup", q.err)
             /\ UNCHANGED <<remote, retry, chg, batch>>

\* the Read that Create and Update end with
ReadStep ==
    /\ pc = "read"
    /\ \E q \in ReadInputs(remote) :
         LET rr == ReadHandler(kind, d, q)
         IN  /\ pc' = "done"
             /\ ret' = rr.ret
             /\ err' = rr.err
             /\ d' = rr.d
             /\ calls' = [calls EXCEPT !.lookups = @ + 1, !.read = q.err]
             /\ UNCHANGED <<kind, remote, pre, op, call, polls, elapsed, waitOut,
                            stale, again, probe, retry, chg, batch, idc, ds, cf, at, diff>>
             /\ errs' = errs \cup Failed("lookup", q.err)

\* one poll of the running waiter
WaiterPoll ==
    /\ pc = "wait"
    /\ elapsed < Timeout
    /\ \E r \in Lookups(remote) : \E p \in Refresh(kind, r) :
         LET w == WaitOutcome(kind, op, p)
             out == WaitReturn(w, p)
         IN  /\ polls' = Append(polls, [status |-> p.status, err |-> p.err, obj |-> p.obj])
             /\ elapsed' = elapsed + 1
             /\ calls' = [calls EXCEPT !.lookups = @ + 1]
             /\ stale' = FALSE
             /\ IF w = "continue"
                THEN UNCHANGED <<pc, ret, err, waitOut>>
                ELSE /\ waitOut' = out
                     /\ Step(Handler(kind, op, "waited", out.err))
             /\ UNCHANGED <<kind, remote, d, pre, op, call, again, probe, retry, chg,
                            batch, errs, idc, ds, cf, at, diff>>

\* the running waiter's timeout elapses
WaiterTimeout ==
    /\ pc = "wait"
    /\ elapsed >= Timeout
    /\ waitOut' = WaitReturn("timeout", [obj |-> NoObj, status |-> "", err |-> "nil"])
    /\ Step(Handler(kind, op, "waited", "timeout"))
    /\ UNCHANGED <<kind, remote, d, pre, op, call, polls, elapsed, calls, stale, again,
                   probe, retry, chg, batch, errs, idc, ds, cf, at, diff>>

\* the attempts a retried call can be answered with
AttemptResults(k, o, rem) ==
    CASE o = "create" -> CreateResults(k, rem)
      [] o = "update" -> UpdateResults(k, rem)
      [] OTHER -> DeleteResults(k, rem)

\* what an attempt answered with u does to the remote object
Attempted(k, o, rem, u) ==
    IF u # "nil" THEN {rem}
    ELSE IF o = "delete" THEN {"absent"}
    ELSE IF rem = "absent" THEN Statuses(k)
    ELSE {rem}

\* resource.Retry calls the function again after a retryable error
RetryAttempt ==
    /\ pc = "retry"
    /\ Len(retry.tries) < MaxTries
    /\ \E u \in AttemptResults(kind, op, remote), t \in TagResults(kind, remote) :
         LET x == IF op = "update" THEN [chg |-> chg, tags |-> t, upd |-> u] ELSE u
             st == Handler(kind, op, "call", x)
         IN  /\ Step(st)
             /\ retry' = [retry EXCEPT !.tries = Append(@, u)]
             /\ call' = u
             /\ d' = WithId(d, st)
             /\ remote' \in Attempted(kind, op, remote, u)
             /\ calls' = [calls EXCEPT !.api = @ + 1]
             /\ errs' = Failed(op, u)
                            \cup (IF TagCalled(kind, op, chg, u) THEN Failed("tags", t) ELSE {})
    /\ UNCHANGED <<kind, pre, op, polls, elapsed, waitOut, stale, again, probe, chg,
                   batch, idc, ds, cf, at, diff>>

\* the window of resource.Retry expires after a retryable error: Retry returns
\* a timeout error or the last error of the function
RetryExpire ==
    /\ pc = "retry"
    /\ \E out \in {"timeout", retry.tries[Len(retry.tries)]} :
         /\ retry' = [retry EXCEPT !.out = out]
         /\ Step(Handler(kind, op, "retried", out))
    /\ UNCHANGED <<kind, remote, d, pre, op, call, polls, elapsed, waitOut, calls, stale,
                   again, probe, chg, batch, errs, idc, ds, cf, at, diff>>

\* the attempt a handler makes once resource.Retry has timed out
FinalAttempt ==
    /\ pc = "final"
    /\ Len(retry.outside) < MaxTries
    /\ \E u \in AttemptResults(kind, op, remote), t \in TagResults(kind, remote) :
         LET x == IF op = "update" THEN [chg |-> chg, tags |-> t, upd |-> u] ELSE u
             st == Handler(kind, op, "final", x)
         IN  /\ Step(st)
             /\ retry' = [retry EXCEPT !.outside = Append(@, u)]
             /\ call' = u
             /\ d' = WithId(d, st)
             /\ remote' \in Attempted(kind, op, remote, u)
             /\ calls' = [calls EXCEPT !.api = @ + 1]
             /\ errs' = Failed(op, u)
                            \cup (IF TagCalled(kind, op, chg, u) THEN Failed("tags", t) ELSE {})
    /\ UNCHANGED <<kind, pre, op, polls, elapsed, waitOut, stale, again, probe, chg,
                   batch, idc, ds, cf, at, diff>>

\* Connect instance Create sets the instance attributes
SetAttributes ==
    /\ pc = "attrs"
    /\ \E x \in {"nil", "accessdenied", "other"} :
         /\ Step(CreateHandler(kind, "attrs", x))
         /\ calls' = [calls EXCEPT !.api = @ + 1]
         /\ errs' = errs \cup Failed("attribute", x)
    /\ UNCHANGED <<kind, remote, d, pre, op, call, polls, elapsed, waitOut, stale, again,
                   probe, retry, chg, batch, idc, ds, cf, at, diff>>

\* the handler has returned; the next one can be called
Finish ==
    /\ pc = "done"
    /\ pc' = "idle"
    /\ again' = (op = "delete" /\ ret = "ok")
    /\ d' = [d EXCEPT !.isNew = FALSE]
    /\ op' = "none"
    /\ pre' = NoPre
    /\ ret' = "none"
    /\ err' = NoErr
    /\ call' = "none"
    /\ polls' = <<>>
    /\ elapsed' = 0
    /\ waitOut' = NoWait
    /\ calls' = NoCalls
    /\ stale' = FALSE
    /\ retry' = NoRetry
    /\ chg' = {}
    /\ batch' = <<>>
    /\ errs' = {}
    /\ UNCHANGED <<kind, remote, probe, idc, ds, cf, at, diff>>

\* the remote object changes on its own
RemoteStep ==
    /\ pc \in {"idle", "wait", "attrs", "read", "retry", "final"}
    /\ \E s \in ({"absent"} \cup Statuses(kind)) \ {remote} : remote' = s
    /\ stale' = (stale \/ pc \in {"attrs", "read"})
    /\ again' = FALSE
    /\ UNCHANGED <<kind, d, pre, op, pc, ret, err, call, polls, elapsed, waitOut, calls,
                   probe, retry, chg, batch, errs, idc, ds, cf, at, diff>>

Next ==
    \/ Create
    \/ Update
    \/ Delete
    \/ Read
    \/ ReadStep
    \/ WaiterPoll
    \/ WaiterTimeout
    \/ RetryAttempt
    \/ RetryExpire
    \/ FinalAttempt
    \/ SetAttributes
    \/ Finish
    \/ RemoteStep

Spec == Init /\ [][Next]_vars

\* the state of the handlers while another part of the provider is looked at
Idle ==
    /\ remote = "absent"
    /\ d = Fresh
    /\ pre = NoPre
    /\ op = "none"
    /\ pc = "idle"
    /\ ret = "none"
    /\ err = NoErr
    /\ call = "none"
    /\ polls = <<>>
    /\ elapsed = 0
    /\ waitOut = NoWait
    /\ calls = NoCalls
    /\ stale = FALSE
    /\ again = FALSE
    /\ retry = NoRetry
    /\ chg = {}
    /\ batch = <<>>
    /\ errs = {}

(***************************************************************************)
(* Specification of the status functions: a finder result is drawn and a   *)
(* status function is applied to it.                                       *)
(***************************************************************************)
ActionTypes == {"FILE_SYSTEM_UPDATE", "STORAGE_OPTIMIZATION"}
ActionStatuses == {"IN_PROGRESS", "COMPLETED", "FAILED"}
\* an AdministrativeActions element: nil, or an action with its type and status
AdminActions ==
    {[type |-> "<nil>", status |-> ""]} \cup
    {[type |-> t, status |-> st] : t \in ActionTypes, st \in ActionStatuses}
ActionLists == UNION {[1..n -> AdminActions] : n \in 0..MaxActions}

FinderResults ==
    {[err |-> e, obj |-> NoObj] : e \in {"notfound", "other", "throttling"}} \cup
    {[err |-> "nil", obj |-> [lifecycle |-> s, actions |-> a]] :
        s \in Statuses("fsx_ontap_file_system"), a \in ActionLists}

\* a waiter for an administrative action: the statuses it waits through and
\* the status it waits for, and what one poll result p means to it
AdministrativeActionConf == [pending |-> {"PENDING", "IN_PROGRESS"}, target |-> {"COMPLETED"}]
AdministrativeActionOutcome(p) ==
    IF p.err # "nil" THEN "error"
    ELSE IF p.status = "" THEN "continue"
    ELSE IF p.status \in AdministrativeActionConf.target THEN "target"
    ELSE IF p.status \in AdministrativeActionConf.pending THEN "continue"
    ELSE "failure"

StatusFunctions == {"BackupStatus", "FileSystemStatus",
                    "FileSystemAdministrativeActionsStatus", "OperationStatus"}

ApplyStatus(fn, r, action) ==
    CASE fn = "BackupStatus" -> BackupStatus(r)
      [] fn = "FileSystemStatus" -> FileSystemStatus(r)
      [] fn = "FileSystemAdministrativeActionsStatus" ->
             FileSystemAdministrativeActionsStatus(r, action)
      [] OTHER -> OperationStatus(r)

InitStatus ==
    /\ kind = "fsx_ontap_file_system"
    /\ Idle
    /\ idc = NoIdc
    /\ ds = NoDs
    /\ cf = NoCf
    /\ at = NoAt
    /\ diff = NoDiff
    /\ \E r \in FinderResults, a \in ActionTypes :
         probe = [NoProbe EXCEPT !.input = r, !.action = a]

\* the refresh function built by a status function is called once
CallStatus ==
    /\ probe.fn = "none"
    /\ \E fn \in StatusFunctions :
         probe' = [probe EXCEPT !.fn = fn, !.out = ApplyStatus(fn, probe.input, probe.action)]
    /\ UNCHANGED <<crudVars, idc, ds, cf, at, diff>>

NextStatus == CallStatus

SpecStatus == InitStatus /\ [][NextStatus]_vars

(***************************************************************************)
(* Specification of the QuickSight group membership ID: either the four    *)
(* values of a configuration are drawn, Create builds the ID from them and *)
(* the ID is parsed, read or deleted; or any string is drawn as the ID of  *)
(* an imported resource and is parsed, read or deleted.                    *)
(***************************************************************************)
Names == Strings(MaxPartLen) \ {<<>>}

InitID ==
    /\ kind = "quicksight_group_membership"
    /\ Idle
    /\ probe = NoProbe
    /\ ds = NoDs
    /\ cf = NoCf
    /\ at = NoAt
    /\ diff = NoDiff
    /\ \/ \E g \in Names, m \in Names :
            idc = [NoIdc EXCEPT !.parts = <<<<"1">>, <<"d">>, g, m>>]
       \/ \E s \in Strings(MaxIdLen) : idc = [NoIdc EXCEPT !.id = s]

\* resourceAwsQuickSightGroupMembershipCreate sets the ID
CreateID ==
    /\ idc.op = "none" /\ ~idc.built /\ idc.parts # NoParts
    /\ idc' = [idc EXCEPT !.built = TRUE,
                          !.id = Sprintf4(idc.parts[1], idc.parts[2], idc.parts[3], idc.parts[4])]
    /\ UNCHANGED <<crudVars, probe, ds, cf, at, diff>>

\* the ID of the resource is there: built by Create, or imported
HasID == idc.op = "none" /\ (idc.built \/ idc.parts = NoParts)

ParseID ==
    /\ HasID
    /\ idc' = [idc EXCEPT !.op = "parse",
                          !.parsed = resourceAwsQuickSightGroupMembershipParseID(idc.id)]
    /\ UNCHANGED <<crudVars, probe, ds, cf, at, diff>>

\* Read of the resource with this ID; the membership is there or not
ReadID ==
    /\ HasID
    /\ \E rem \in {"absent", "ACTIVE"} : \E q \in ReadInputs(rem) :
         LET rr == resourceAwsQuickSightGroupMembershipRead([Imported EXCEPT !.text = idc.id], q)
         IN  idc' = [idc EXCEPT !.op = "read",
                                !.ret = rr.ret,
                                !.cause = rr.err.cause,
                                !.api = IF rr.err.cause = "format" THEN 0 ELSE 1]
    /\ UNCHANGED <<crudVars, probe, ds, cf, at, diff>>

\* Delete of the resource with this ID
DeleteID ==
    /\ HasID
    /\ \E rem \in {"absent", "ACTIVE"} : \E x \in CallResults(rem) :
         LET st == resourceAwsQuickSightGroupMembershipDelete("call", [id |-> idc.id, err |-> x])
         IN  idc' = [idc EXCEPT !.op = "delete",
                                !.ret = st.ret,
                                !.cause = st.err.cause,
                                !.api = IF st.err.cause = "format" THEN 0 ELSE 1]
    /\ UNCHANGED <<crudVars, probe, ds, cf, at, diff>>

NextID ==
    \/ CreateID
    \/ ParseID
    \/ ReadID
    \/ DeleteID

SpecID == InitID /\ [][NextID]_vars

(***************************************************************************)
(* Specification of the EKS clusters data source: the listing answers with *)
(* one to MaxPages pages, or fails at one of them; ListClustersPages hands *)
(* each page to the function of the data source, with the flag of the last *)
(* page, until the function returns false or the pages are through.        *)
(***************************************************************************)
Region == "us-west-2"
ClusterNames == {"c1", "c2"}
NilPage == [nil |-> TRUE, clusters |-> <<>>]
Pages ==
    {NilPage} \cup
    {[nil |-> FALSE, clusters |-> c] : c \in {<<>>, <<"c1">>, <<"c2">>, <<"c1", "c2">>}}

\* the function handed to ListClustersPages stopping at a nil page
dataSourceAwsEksClustersReadPageStopsOnNil(clusters, page, lastPage) ==
    IF page.nil THEN [clusters |-> clusters, more |-> FALSE]
    ELSE [clusters |-> clusters \o page.clusters, more |-> ~lastPage]

\* the function dataSourceAwsEksClustersRead hands to ListClustersPages
dataSourceAwsEksClustersReadPage(clusters, page, lastPage) ==
    IF page.nil THEN [clusters |-> clusters, more |-> ~lastPage]
    ELSE [clusters |-> clusters \o page.clusters, more |-> ~lastPage]

\* dataSourceAwsEksClustersRead once ListClustersPages has returned e
dataSourceAwsEksClustersRead(clusters, e) ==
    IF e # "nil" THEN [ret |-> "err", id |-> "", names |-> {}]
    ELSE [ret |-> "ok", id |-> Region, names |-> {clusters[i] : i \in 1..Len(clusters)}]

InitEKS ==
    /\ kind = "fsx_ontap_file_system"
    /\ Idle
    /\ probe = NoProbe
    /\ idc = NoIdc
    /\ cf = NoCf
    /\ at = NoAt
    /\ diff = NoDiff
    /\ \E n \in 1..MaxPages : \E ps \in [1..n -> Pages] : \E f \in 0..n :
         ds = [NoDs EXCEPT !.pages = ps, !.failAt = f, !.pc = "list"]

\* ListClustersPages gets the next page and calls the function with it
ListPage ==
    /\ ds.pc = "list"
    /\ ds.next <= Len(ds.pages)
    /\ ds.failAt # ds.next
    /\ LET r == dataSourceAwsEksClustersReadPage(ds.clusters, ds.pages[ds.next],
                                                  ds.next = Len(ds.pages))
       IN  ds' = [ds EXCEPT !.clusters = r.clusters,
                            !.next = @ + 1,
                            !.pc = IF r.more /\ ds.next < Len(ds.pages) THEN "list" ELSE "listed"]
    /\ UNCHANGED <<crudVars, probe, idc, cf, at, diff>>

\* the request for the next page fails: ListClustersPages returns the error
ListFail ==
    /\ ds.pc = "list"
    /\ ds.failAt = ds.next
    /\ LET r == dataSourceAwsEksClustersRead(ds.clusters, "other")
       IN  ds' = [ds EXCEPT !.pc = "done", !.ret = r.ret, !.id = r.id, !.names = r.names]
    /\ UNCHANGED <<crudVars, probe, idc, cf, at, diff>>

\* ListClustersPages returns without an error
ListReturn ==
    /\ ds.pc = "listed"
    /\ LET r == dataSourceAwsEksClustersRead(ds.clusters, "nil")
       IN  ds' = [ds EXCEPT !.pc = "done", !.ret = r.ret, !.id = r.id, !.names = r.names]
    /\ UNCHANGED <<crudVars, probe, idc, cf, at, diff>>

NextEKS ==
    \/ ListPage
    \/ ListFail
    \/ ListReturn

SpecEKS == InitEKS /\ [][NextEKS]_vars

(***************************************************************************)
(* Specification of the attributes.  One resource is followed with its     *)
(* configuration, the attributes in its state and the remote object the    *)
(* create call makes; a second resource (the twin) is imported by the ID   *)
(* of the same remote object and read.  A panic of a handler (an index out *)
(* of range, a nil dereference, a failed type assertion) is the return     *)
(* value "panic".                                                          *)
(***************************************************************************)
\* a pointer field of an API response: nil, or the value it points to
NilOf(zero) == [nil |-> TRUE, v |-> zero]
Ptr(v) == [nil |-> FALSE, v |-> v]
\* aws.StringValue
StringValue(p) == IF p.nil THEN "" ELSE p.v

AttrKinds ==
    {"shield_protection_group", "quicksight_group_membership", "connect_instance",
     "fsx_ontap_file_system", "flow_log", "transfer_access", "sagemaker_human_task_ui",
     "cloudwatch_event_rule"}

\* resource types whose ID is a sequence of parts
PartIds == {"quicksight_group_membership", "transfer_access", "cloudwatch_event_rule"}

\* tfconnect.InstanceAttributeMapping: the resource keys of the instance
\* attributes, and those of them that CreateInstanceInput carries
ConnectAttributes ==
    {"auto_resolve_best_voices_enabled", "contact_flow_logs_enabled", "contact_lens_enabled",
     "early_media_enabled", "inbound_calls_enabled", "outbound_calls_enabled"}
ConnectCreateInput == {"inbound_calls_enabled", "outbound_calls_enabled"}

\* the ID of a resource that has none
NoId(k) == IF k \in PartIds THEN <<>> ELSE ""

\* tftransfer.AccessCreateResourceID / AccessParseResourceID
AccessCreateResourceID(serverID, externalID) == <<serverID, "/", externalID>>
AccessParseResourceID(id) ==
    IF Len(id) = 3 /\ id[2] = "/" /\ id[1] # "" /\ id[3] # ""
    THEN [serverID |-> id[1], externalID |-> id[3], err |-> "nil"]
    ELSE [serverID |-> "", externalID |-> "", err |-> "format"]

\* tfevents.RuleCreateResourceID / RuleParseResourceID: a rule of the default
\* bus has its name for ID, any other rule its bus, a slash and its name
RuleCreateResourceID(eventBusName, ruleName) ==
    IF eventBusName \in {"", "default"} THEN <<ruleName>>
    ELSE <<eventBusName, "/", ruleName>>
RuleParseResourceID(id) ==
    IF Len(id) = 1 /\ id[1] # ""
    THEN [eventBusName |-> "default", ruleName |-> id[1], err |-> "nil"]
    ELSE IF Len(id) = 3 /\ id[2] = "/" /\ id[1] # "" /\ id[3] # ""
         THEN [eventBusName |-> id[1], ruleName |-> id[3], err |-> "nil"]
         ELSE [eventBusName |-> "", ruleName |-> "", err |-> "format"]

\* configurations the schema of resource type k accepts
Configs(k) ==
    CASE k = "shield_protection_group" ->
             {[aggregation |-> a, pattern |-> p.pattern, members |-> p.members,
               resource_type |-> p.resource_type, protection_group_id |-> "pg-1",
               tags |-> t] :
                 a \in {"SUM", "MAX"},
                 p \in {[pattern |-> "ALL", members |-> <<>>, resource_type |-> ""],
                        [pattern |-> "ARBITRARY", members |-> <<"arn:r1">>, resource_type |-> ""],
                        [pattern |-> "BY_RESOURCE_TYPE", members |-> <<>>,
                         resource_type |-> "ELASTIC_IP_ALLOCATION"]},
                 t \in {{}, {"t1"}}}
      [] k = "connect_instance" -> [ConnectAttributes -> BOOLEAN]
      [] k = "fsx_ontap_file_system" ->
             {[fsx_admin_password |-> p, weekly_maintenance_start_time |-> w] :
                 p \in {"", "pw"}, w \in {"", "1:05:00"}}
      [] k = "flow_log" ->
             {[vpc_id |-> <<"vpc-", "1">>, traffic_type |-> t] : t \in {"ALL", "REJECT"}}
      [] k = "transfer_access" ->
             {[server_id |-> "s-1", external_id |-> "S-1-1", role |-> r, home_directory |-> h] :
                 r \in {"", "role-1"}, h \in {"", "/h"}}
      [] k = "sagemaker_human_task_ui" ->
             {[human_task_ui_name |-> "ui",
               ui_template |-> <<[content |-> c, content_sha256 |-> "", url |-> ""]>>] :
                 c \in {"<a/>", "<b/>"}}
      [] k = "cloudwatch_event_rule" ->
             {[name |-> "r", event_bus_name |-> b] : b \in {"default", "bus", "arn:bus"}}
      [] OTHER ->
             {[aws_account_id |-> a, namespace |-> <<"d">>, group_name |-> g, member_name |-> m] :
                 a \in {<<>>, <<"2">>}, g \in Names, m \in Names}

\* the attributes of a state that holds nothing but the ID
Blank(k) ==
    CASE k = "shield_protection_group" ->
             [aggregation |-> "", members |-> <<>>, pattern |-> "", protection_group_id |-> "",
              protection_group_arn |-> "", resource_type |-> "", tags |-> {}, tags_all |-> {}]
      [] k = "connect_instance" -> [a \in ConnectAttributes |-> FALSE]
      [] k = "fsx_ontap_file_system" ->
             [fsx_admin_password |-> "", weekly_maintenance_start_time |-> ""]
      [] k = "flow_log" -> [vpc_id |-> <<>>, traffic_type |-> ""]
      [] k = "transfer_access" ->
             [server_id |-> "", external_id |-> "", role |-> "", home_directory |-> ""]
      [] k = "sagemaker_human_task_ui" -> [human_task_ui_name |-> "", ui_template |-> <<>>]
      [] k = "cloudwatch_event_rule" -> [name |-> "", event_bus_name |-> ""]
      [] OTHER ->
             [arn |-> <<>>, aws_account_id |-> <<>>, namespace |-> <<>>, member_name |-> <<>>,
              group_name |-> <<>>]

\* the attributes Create starts with: the configured values, computed ones unset
Planned(k, c) ==
    CASE k = "shield_protection_group" ->
             [Blank(k) EXCEPT !.aggregation = c.aggregation, !.members = c.members,
                              !.pattern = c.pattern,
                              !.protection_group_id = c.protection_group_id,
                              !.resource_type = c.resource_type,
                              !.tags = c.tags, !.tags_all = c.tags]
      [] k \in {"connect_instance", "fsx_ontap_file_system", "flow_log", "transfer_access",
                 "sagemaker_human_task_ui", "cloudwatch_event_rule"} -> c
      [] OTHER ->
             [Blank(k) EXCEPT !.aws_account_id = c.aws_account_id, !.namespace = c.namespace,
                              !.member_name = c.member_name, !.group_name = c.group_name]

\* meta.(*AWSClient).accountid
AccountId == <<"1">>

\* the remote objects the create call can make of configuration c, as the
\* describe call answers them: an empty list comes back empty or nil, an
\* unset string comes back nil; an instance attribute that the create input
\* does not carry has the default of the service, whatever that is; the API
\* answers no role of a Transfer access and the name of a bus given by its ARN
Objects(k, c) ==
    CASE k = "shield_protection_group" ->
             {[ProtectionGroupArn |-> <<"arn", c.protection_group_id>>,
               Aggregation |-> c.aggregation,
               ProtectionGroupId |-> c.protection_group_id,
               Pattern |-> c.pattern,
               Members |-> m,
               ResourceType |-> IF c.resource_type = "" THEN NilOf("") ELSE Ptr(c.resource_type),
               Tags |-> c.tags] :
                 m \in IF c.members = <<>> THEN {NilOf(<<>>), Ptr(<<>>)} ELSE {Ptr(c.members)}}
      [] k = "connect_instance" ->
             {[Id |-> "i-1", Attributes |-> g] :
                 g \in {f \in [ConnectAttributes -> BOOLEAN] :
                           \A a \in ConnectCreateInput : f[a] = c[a]}}
      [] k = "fsx_ontap_file_system" ->
             {[FileSystemId |-> "fs-1", OntapConfiguration |-> oc] :
                 oc \in {NilOf([WeeklyMaintenanceStartTime |-> ""]),
                         Ptr([WeeklyMaintenanceStartTime |->
                                 IF c.weekly_maintenance_start_time = "" THEN "7:00:00"
                                 ELSE c.weekly_maintenance_start_time])}}
      [] k = "flow_log" ->
             {[FlowLogId |-> "fl-1", ResourceId |-> c.vpc_id, TrafficType |-> c.traffic_type]}
      [] k = "transfer_access" ->
             {[ServerId |-> c.server_id, ExternalId |-> c.external_id, Role |-> NilOf(""),
               HomeDirectory |-> IF c.home_directory = "" THEN NilOf("")
                                 ELSE Ptr(c.home_directory)]}
      [] k = "sagemaker_human_task_ui" ->
             {[HumanTaskUiName |-> c.human_task_ui_name, UiTemplate |-> t] :
                 t \in {NilOf([ContentSha256 |-> "", Url |-> ""]),
                        Ptr([ContentSha256 |-> "sha", Url |-> "url"])}}
      [] k = "cloudwatch_event_rule" ->
             {[Name |-> c.name,
               EventBusName |-> IF c.event_bus_name = "arn:bus" THEN "bus"
                                ELSE c.event_bus_name]}
      [] OTHER ->
             {[AwsAccountId |-> IF c.aws_account_id = <<>> THEN AccountId ELSE c.aws_account_id,
               Namespace |-> c.namespace,
               GroupName |-> c.group_name,
               MemberName |-> c.member_name]}

\* the ID that names the object o which Create made of configuration c
IdOf(k, c, o) ==
    CASE k = "shield_protection_group" -> o.ProtectionGroupId
      [] k = "connect_instance" -> o.Id
      [] k = "fsx_ontap_file_system" -> o.FileSystemId
      [] k = "flow_log" -> o.FlowLogId
      [] k = "transfer_access" -> AccessCreateResourceID(o.ServerId, o.ExternalId)
      [] k = "sagemaker_human_task_ui" -> o.HumanTaskUiName
      [] k = "cloudwatch_event_rule" -> RuleCreateResourceID(c.event_bus_name, o.Name)
      [] OTHER -> Sprintf4(o.AwsAccountId, o.Namespace, o.GroupName, o.MemberName)

\* the responses an accepted create call can have for the object o it made
Responses(k, o) ==
    CASE k = "flow_log" ->
             {[FlowLogIds |-> ids, Unsuccessful |-> u] :
                 ids \in {<<>>, <<Ptr(o.FlowLogId)>>, <<NilOf("")>>},
                 u \in {<<>>, <<"other">>}}
      [] k = "connect_instance" -> {[Id |-> Ptr(o.Id)], [Id |-> NilOf("")]}
      [] k = "fsx_ontap_file_system" ->
             {[FileSystem |-> Ptr([FileSystemId |-> Ptr(o.FileSystemId)])],
              [FileSystem |-> Ptr([FileSystemId |-> NilOf("")])],
              [FileSystem |-> NilOf([FileSystemId |-> NilOf("")])]}
      [] OTHER -> {[read |-> FALSE]}

\* Create from the answer r of its create call to its d.SetId: the ID it
\* sets, or how it ends
CreateSetId(k, c, o, r) ==
    CASE k = "flow_log" ->
             IF UnsuccessfulItemsError(r.Unsuccessful) # "nil" THEN [id |-> "", ret |-> "err"]
             ELSE IF Len(r.FlowLogIds) < 1 THEN [id |-> "", ret |-> "panic"]
             ELSE [id |-> StringValue(r.FlowLogIds[1]), ret |-> "none"]
      [] k = "connect_instance" -> [id |-> StringValue(r.Id), ret |-> "none"]
      [] k = "fsx_ontap_file_system" ->
             IF r.FileSystem.nil THEN [id |-> "", ret |-> "panic"]
             ELSE [id |-> StringValue(r.FileSystem.v.FileSystemId), ret |-> "none"]
      [] OTHER -> [id |-> IdOf(k, c, o), ret |-> "none"]

\* answers of a lookup by this ID, the remote object being o: an ID that
\* names no object finds none
LookupAnswers(k, id, c, o) ==
    IF id = IdOf(k, c, o) THEN {"nil", "other"} ELSE {"notfound"}

\* resource types whose Create waits for the object before it goes on
Awaited == {"connect_instance", "fsx_ontap_file_system"}

\* Shield protection group Read leaving the pattern as it is in state
resourceAwsShieldProtectionGroupReadSetKeepsPattern(st, o) ==
    LET s1 == [st EXCEPT !.protection_group_arn = o.ProtectionGroupArn,
                         !.aggregation = o.Aggregation,
                         !.protection_group_id = o.ProtectionGroupId]
        s2 == IF ~o.Members.nil THEN [s1 EXCEPT !.members = o.Members.v] ELSE s1
        s3 == IF ~o.ResourceType.nil THEN [s2 EXCEPT !.resource_type = o.ResourceType.v] ELSE s2
    IN  [s3 EXCEPT !.tags = o.Tags, !.tags_all = o.Tags]

\* the d.Set calls of resourceAwsShieldProtectionGroupRead for the object o
resourceAwsShieldProtectionGroupReadSet(st, o) ==
    LET s1 == [st EXCEPT !.protection_group_arn = o.ProtectionGroupArn,
                         !.aggregation = o.Aggregation,
                         !.protection_group_id = o.ProtectionGroupId,
                         !.pattern = o.Pattern]
        s2 == IF ~o.Members.nil THEN [s1 EXCEPT !.members = o.Members.v] ELSE s1
        s3 == IF ~o.ResourceType.nil THEN [s2 EXCEPT !.resource_type = o.ResourceType.v] ELSE s2
    IN  [s3 EXCEPT !.tags = o.Tags, !.tags_all = o.Tags]

\* the d.Set calls of resourceAwsQuickSightGroupMembershipRead for the parsed ID
resourceAwsQuickSightGroupMembershipReadSet(st, parts) ==
    [st EXCEPT !.aws_account_id = parts[1], !.namespace = parts[2],
               !.member_name = parts[4], !.group_name = parts[3]]

\* the d.Set calls of resourceAwsConnectInstanceRead for the attributes of o
resourceAwsConnectInstanceReadSet(st, o) ==
    [a \in ConnectAttributes |-> o.Attributes[a]]

\* the d.Set calls of resourceAwsFsxOntapFileSystemRead
resourceAwsFsxOntapFileSystemReadSet(st, o) ==
    [st EXCEPT !.weekly_maintenance_start_time = o.OntapConfiguration.v.WeeklyMaintenanceStartTime,
               !.fsx_admin_password = st.fsx_admin_password]

\* the d.Set calls of resourceAwsLogFlowRead
resourceAwsLogFlowReadSet(st, o) ==
    LET s1 == [st EXCEPT !.traffic_type = o.TrafficType]
    IN  IF o.ResourceId # <<>> /\ o.ResourceId[1] = "vpc-"
        THEN [s1 EXCEPT !.vpc_id = o.ResourceId] ELSE s1

\* the d.Set calls of resourceAwsTransferAccessRead
resourceAwsTransferAccessReadSet(st, o, serverID) ==
    [st EXCEPT !.external_id = o.ExternalId, !.home_directory = StringValue(o.HomeDirectory),
               !.server_id = serverID]

\* flattenSagemakerHumanTaskUiUiTemplate
flattenSagemakerHumanTaskUiUiTemplate(config, content) ==
    IF config.nil THEN <<>>
    ELSE <<[content_sha256 |-> config.v.ContentSha256, url |-> config.v.Url,
            content |-> content]>>

\* d.Get("ui_template.0.content").(string)
UiTemplateContent(st) == IF st.ui_template = <<>> THEN "" ELSE st.ui_template[1].content

\* the d.Set calls of resourceAwsSagemakerHumanTaskUiRead
resourceAwsSagemakerHumanTaskUiReadSet(st, o) ==
    [st EXCEPT !.human_task_ui_name = o.HumanTaskUiName,
               !.ui_template = flattenSagemakerHumanTaskUiUiTemplate(o.UiTemplate,
                                                                     UiTemplateContent(st))]

\* the d.Set calls of resourceAwsCloudWatchEventRuleRead
resourceAwsCloudWatchEventRuleReadSet(st, o, eventBusName) ==
    [st EXCEPT !.name = o.Name, !.event_bus_name = eventBusName]

\* the attribute loop of resourceAwsConnectInstanceCreate for configuration c
\* and instance o: UpdateInstanceAttribute answers the call for attribute a
\* with error x and every other call with success; done are the attributes
\* the loop came to before a
resourceAwsConnectInstanceCreateAttributes(c, o, a, x, done) ==
    LET sent == {k \in ConnectAttributes : c[k]}
        set(keys) == [o EXCEPT !.Attributes =
                         [k \in ConnectAttributes |-> IF k \in keys THEN c[k] ELSE @[k]]]
    IN  IF a \notin sent \/ x = "nil" THEN [obj |-> set(sent), err |-> "nil"]
        ELSE IF (x # "nil" /\ ErrCodeEquals(x, "AccessDeniedException"))
                   \/ ErrMessageContains(x, "AccessDeniedException", "not authorized to update")
             THEN [obj |-> set(sent \ {a}), err |-> "nil"]
             ELSE [obj |-> set(done \cap (sent \ {a})), err |-> x]

\* what Create does between its create call and its Read
AfterCall(k, c, o) ==
    IF k = "connect_instance"
    THEN {resourceAwsConnectInstanceCreateAttributes(c, o, a, x, done) :
             a \in ConnectAttributes, x \in {"nil", "accessdenied", "other"},
             done \in SUBSET ConnectAttributes}
    ELSE {[obj |-> o, err |-> "nil"]}

\* finder.GroupMembership: the membership o is listed for these parts of an ID
GroupMembership(o, parts) ==
    parts = <<o.AwsAccountId, o.Namespace, o.GroupName, o.MemberName>>

\* Read of resource type k with this ID and these attributes, the remote
\* object being o and the lookup answering with error e
ReadAttrs(k, id, st, o, e) ==
    CASE k = "shield_protection_group" ->
             IF e # "nil" THEN [id |-> id, st |-> st, ret |-> "err"]
             ELSE [id |-> id, st |-> resourceAwsShieldProtectionGroupReadSet(st, o), ret |-> "ok"]
      [] k = "connect_instance" ->
             IF e # "nil" THEN [id |-> id, st |-> st, ret |-> "err"]
             ELSE [id |-> id, st |-> resourceAwsConnectInstanceReadSet(st, o), ret |-> "ok"]
      [] k = "fsx_ontap_file_system" ->
             IF e # "nil" \/ o.OntapConfiguration.nil THEN [id |-> id, st |-> st, ret |-> "err"]
             ELSE [id |-> id, st |-> resourceAwsFsxOntapFileSystemReadSet(st, o), ret |-> "ok"]
      [] k = "flow_log" ->
             IF e # "nil" THEN [id |-> id, st |-> st, ret |-> "err"]
             ELSE [id |-> id, st |-> resourceAwsLogFlowReadSet(st, o), ret |-> "ok"]
      [] k = "transfer_access" ->
             LET p == AccessParseResourceID(id)
             IN  IF p.err # "nil" \/ e # "nil" THEN [id |-> id, st |-> st, ret |-> "err"]
                 ELSE [id |-> id, st |-> resourceAwsTransferAccessReadSet(st, o, p.serverID),
                       ret |-> "ok"]
      [] k = "sagemaker_human_task_ui" ->
             IF e # "nil" THEN [id |-> id, st |-> st, ret |-> "err"]
             ELSE [id |-> id, st |-> resourceAwsSagemakerHumanTaskUiReadSet(st, o), ret |-> "ok"]
      [] k = "cloudwatch_event_rule" ->
             LET p == RuleParseResourceID(id)
             IN  IF p.err # "nil" \/ e # "nil" THEN [id |-> id, st |-> st, ret |-> "err"]
                 ELSE [id |-> id,
                       st |-> resourceAwsCloudWatchEventRuleReadSet(st, o, p.eventBusName),
                       ret |-> "ok"]
      [] OTHER ->
             LET p == resourceAwsQuickSightGroupMembershipParseID(id)
             IN  IF p.err # "nil" \/ e # "nil" THEN [id |-> id, st |-> st, ret |-> "err"]
                 ELSE IF ~GroupMembership(o, p.parts)
                      THEN [id |-> NoId(k), st |-> st, ret |-> "ok"]
                      ELSE [id |-> id,
                            st |-> resourceAwsQuickSightGroupMembershipReadSet(st, p.parts),
                            ret |-> "ok"]

\* the twin before it is imported, and the Update that has not run
NoTwin == [pc |-> "none", ret |-> "none"]
NoUpd == [pc |-> "none", ret |-> "none"]

\* d.Get(key): the value of a key the schema defines, nil for any other key
Get(st, key) == IF key \in DOMAIN st THEN Ptr(st[key]) ELSE NilOf("")

\* resourceAwsShieldProtectionGroupUpdate after its update call succeeded, the
\* plan changing tags_all to n: the tag call it makes, answered with error t,
\* and how it goes on
resourceAwsShieldProtectionGroupUpdateTags(st, n, t) ==
    IF n # st.tags_all
    THEN LET arn == Get(st, "arn")
         IN  IF arn.nil THEN [tagged |-> NilOf(""), ret |-> "panic"]
             ELSE IF t # "nil" THEN [tagged |-> Ptr(arn.v), ret |-> "err"]
             ELSE [tagged |-> Ptr(arn.v), ret |-> "none"]
    ELSE [tagged |-> NilOf(""), ret |-> "none"]

InitAttrs ==
    /\ kind \in AttrKinds
    /\ Idle
    /\ probe = NoProbe
    /\ idc = NoIdc
    /\ ds = NoDs
    /\ cf = NoCf
    /\ diff = NoDiff
    /\ \E c \in Configs(kind) : \E o \in Objects(kind, c) :
         at = [pc |-> "new", cfg |-> c, obj |-> o, id |-> NoId(kind),
               st |-> Planned(kind, c), ret |-> "none", twin |-> NoTwin, upd |-> NoUpd]

\* Create: the create call, the ID, the wait, what follows it, and the Read
\* that Create ends with
CreateAttrs ==
    /\ at.pc = "new"
    /\ \E x \in {"nil", "other"} :
         IF x # "nil"
         THEN at' = [at EXCEPT !.pc = "failed", !.ret = "err"]
         ELSE \E r \in Responses(kind, at.obj) :
              LET s == CreateSetId(kind, at.cfg, at.obj, r)
              IN  IF s.ret # "none"
                  THEN at' = [at EXCEPT !.pc = "created", !.ret = s.ret]
                  ELSE \E wa \in IF kind \in Awaited
                                  THEN LookupAnswers(kind, s.id, at.cfg, at.obj) ELSE {"nil"} :
                       IF wa # "nil"
                       THEN at' = [at EXCEPT !.pc = "created", !.id = s.id, !.ret = "err"]
                       ELSE \E w \in AfterCall(kind, at.cfg, at.obj) :
                            IF w.err # "nil"
                            THEN at' = [at EXCEPT !.pc = "created", !.id = s.id,
                                                  !.obj = w.obj, !.ret = "err"]
                            ELSE \E e \in LookupAnswers(kind, s.id, at.cfg, w.obj) :
                                 LET rd == ReadAttrs(kind, s.id, at.st, w.obj, e)
                                 IN  at' = [at EXCEPT !.pc = "created", !.id = rd.id,
                                                      !.st = rd.st, !.obj = w.obj,
                                                      !.ret = rd.ret]
    /\ UNCHANGED <<crudVars, probe, idc, ds, cf, diff>>

\* the remote object of the created resource is imported by its ID
ImportAttrs ==
    /\ at.pc = "created"
    /\ at.id # NoId(kind)
    /\ at.twin.pc = "none"
    /\ at' = [at EXCEPT !.twin = [pc |-> "imported", id |-> at.id, st |-> Blank(kind),
                                  ret |-> "none"]]
    /\ UNCHANGED <<crudVars, probe, idc, ds, cf, diff>>

\* Read of the imported resource
ReadTwin ==
    /\ at.pc = "created"
    /\ at.twin.pc = "imported"
    /\ \E e \in {"nil", "other"} :
         LET r == ReadAttrs(kind, at.twin.id, at.twin.st, at.obj, e)
         IN  at' = [at EXCEPT !.twin = [pc |-> "read", id |-> r.id, st |-> r.st, ret |-> r.ret]]
    /\ UNCHANGED <<crudVars, probe, idc, ds, cf, diff>>

\* Update of the created Shield protection group for a plan that changes
\* tags_all to n: the update call, the tag call, and the Read
UpdateShield ==
    /\ kind = "shield_protection_group"
    /\ at.pc = "created" /\ at.ret = "ok"
    /\ at.twin.pc = "none"
    /\ at.upd.pc = "none"
    /\ \E n \in {{}, {"t1"}, {"t2"}}, x \in {"nil", "other"}, t \in {"nil", "other"},
          e \in {"nil", "other"} :
         IF x # "nil"
         THEN at' = [at EXCEPT !.upd = [pc |-> "done", ret |-> "err", plan |-> n,
                                        call |-> x, was |-> at.st.tags_all,
                                        arn |-> at.st.protection_group_arn,
                                        tagged |-> NilOf("")]]
         ELSE LET u == resourceAwsShieldProtectionGroupUpdateTags(at.st, n, t)
                  o == IF u.ret = "none" /\ ~u.tagged.nil THEN [at.obj EXCEPT !.Tags = n]
                       ELSE at.obj
                  rd == ReadAttrs(kind, at.id, at.st, o, e)
              IN  IF u.ret # "none"
                  THEN at' = [at EXCEPT !.upd = [pc |-> "done", ret |-> u.ret, plan |-> n,
                                                 call |-> x, was |-> at.st.tags_all,
                                                 arn |-> at.st.protection_group_arn,
                                                 tagged |-> u.tagged]]
                  ELSE at' = [at EXCEPT !.obj = o, !.st = rd.st, !.id = rd.id,
                                        !.upd = [pc |-> "done", ret |-> rd.ret, plan |-> n,
                                                 call |-> x, was |-> at.st.tags_all,
                                                 arn |-> at.st.protection_group_arn,
                                                 tagged |-> u.tagged]]
    /\ UNCHANGED <<crudVars, probe, idc, ds, cf, diff>>

NextAttrs ==
    \/ CreateAttrs
    \/ ImportAttrs
    \/ ReadTwin
    \/ UpdateShield

SpecAttrs == InitAttrs /\ [][NextAttrs]_vars

(***************************************************************************)
(* Specification of the Connect contact flow data source: it is read with  *)
(* contact_flow_id or with name configured; by name, ListContactFlowsPages *)
(* hands each page of summaries to the function of the data source until   *)
(* the function returns false or the pages are through.                    *)
(***************************************************************************)
InstanceId == "i-1"
NilSummary == [nil |-> TRUE, Name |-> "", Id |-> ""]
\* a ContactFlowSummaryList element: nil, or a summary with its name and ID
Summaries ==
    {NilSummary} \cup
    {[nil |-> FALSE, Name |-> s[1], Id |-> s[2]] :
        s \in {<<"n1", "f1">>, <<"n1", "f2">>, <<"n2", "f3">>}}
\* a page of the listing: nil, or its list of summaries
NilFlowPage == [nil |-> TRUE, list |-> <<>>]
FlowPages ==
    {NilFlowPage} \cup
    {[nil |-> FALSE, list |-> l] : l \in UNION {[1..n -> Summaries] : n \in 0..MaxFlows}}

\* index of the first non-nil summary of the list with this name, 0 without one
RECURSIVE FirstSummary(_, _, _)
FirstSummary(list, name, i) ==
    IF i > Len(list) THEN 0
    ELSE IF list[i].nil THEN FirstSummary(list, name, i + 1)
    ELSE IF list[i].Name = name THEN i
    ELSE FirstSummary(list, name, i + 1)

\* the function handed to ListContactFlowsPages going on after a match
dataSourceAwsConnectGetConnectContactFlowSummaryByNamePageGoesOn(result, page, lastPage, name) ==
    IF page.nil THEN [result |-> result, more |-> ~lastPage]
    ELSE LET i == FirstSummary(page.list, name, 1)
         IN  IF i > 0 THEN [result |-> page.list[i], more |-> ~lastPage]
             ELSE [result |-> result, more |-> ~lastPage]

\* the function dataSourceAwsConnectGetConnectContactFlowSummaryByName hands
\* to ListContactFlowsPages
dataSourceAwsConnectGetConnectContactFlowSummaryByNamePage(result, page, lastPage, name) ==
    IF page.nil THEN [result |-> result, more |-> ~lastPage]
    ELSE LET i == FirstSummary(page.list, name, 1)
         IN  IF i > 0 THEN [result |-> page.list[i], more |-> FALSE]
             ELSE [result |-> result, more |-> ~lastPage]

\* dataSourceAwsConnectContactFlowRead up to its describe call: the contact
\* flow ID it asks for, or the error it returns; e is the error of the listing
dataSourceAwsConnectContactFlowReadFind(flowId, name, result, e) ==
    IF flowId # "" THEN [ret |-> "none", cause |-> "nil", flowId |-> flowId]
    ELSE IF name # ""
         THEN (IF e # "nil" THEN [ret |-> "err", cause |-> "list", flowId |-> ""]
               ELSE IF result.nil THEN [ret |-> "err", cause |-> "notfound", flowId |-> ""]
               ELSE [ret |-> "none", cause |-> "nil", flowId |-> result.Id])
         ELSE [ret |-> "none", cause |-> "nil", flowId |-> ""]

\* dataSourceAwsConnectContactFlowRead from its describe call on; x is the
\* answer of DescribeContactFlow: an error, an empty response, or the flow
dataSourceAwsConnectContactFlowReadDescribe(flowId, x) ==
    IF x = "other" THEN [ret |-> "err", cause |-> "describe", id |-> <<>>]
    ELSE IF x = "empty" THEN [ret |-> "err", cause |-> "empty", id |-> <<>>]
    ELSE [ret |-> "ok", cause |-> "nil", id |-> <<InstanceId, flowId>>]

InitFlow ==
    /\ kind = "connect_instance"
    /\ Idle
    /\ probe = NoProbe
    /\ idc = NoIdc
    /\ ds = NoDs
    /\ at = NoAt
    /\ diff = NoDiff
    /\ \E c \in {[contact_flow_id |-> "f1", name |-> ""], [contact_flow_id |-> "", name |-> "n1"]} :
       \E n \in 1..MaxFlowPages : \E ps \in [1..n -> FlowPages] :
         cf = [pc |-> "start", contact_flow_id |-> c.contact_flow_id, name |-> c.name,
               pages |-> ps, next |-> 1, result |-> NilSummary, lists |-> 0, requested |-> 0,
               flowId |-> "", ret |-> "none", cause |-> "nil", id |-> <<>>]

\* the read starts: with contact_flow_id it goes to the describe call, with
\* name it starts the listing
FlowStart ==
    /\ cf.pc = "start"
    /\ cf' = IF cf.contact_flow_id # ""
             THEN [cf EXCEPT !.pc = "describe",
                             !.flowId = dataSourceAwsConnectContactFlowReadFind(
                                            cf.contact_flow_id, cf.name, cf.result, "nil").flowId]
             ELSE [cf EXCEPT !.pc = "list", !.lists = 1]
    /\ UNCHANGED <<crudVars, probe, idc, ds, at, diff>>

\* ListContactFlowsPages gets the next page and calls the function with it
FlowPage ==
    /\ cf.pc = "list"
    /\ cf.next <= Len(cf.pages)
    /\ LET r == dataSourceAwsConnectGetConnectContactFlowSummaryByNamePage(
                    cf.result, cf.pages[cf.next], cf.next = Len(cf.pages), cf.name)
       IN  cf' = [cf EXCEPT !.result = r.result,
                            !.next = @ + 1,
                            !.requested = @ + 1,
                            !.pc = IF r.more /\ cf.next < Len(cf.pages) THEN "list" ELSE "listed"]
    /\ UNCHANGED <<crudVars, probe, idc, ds, at, diff>>

\* the request for the next page fails: the listing returns the error and
\* the read returns it
FlowListFail ==
    /\ cf.pc = "list"
    /\ LET r == dataSourceAwsConnectContactFlowReadFind(cf.contact_flow_id, cf.name,
                                                        cf.result, "other")
       IN  cf' = [cf EXCEPT !.pc = "done", !.requested = @ + 1, !.ret = r.ret,
                            !.cause = r.cause]
    /\ UNCHANGED <<crudVars, probe, idc, ds, at, diff>>

\* the listing has returned without an error
FlowListed ==
    /\ cf.pc = "listed"
    /\ LET r == dataSourceAwsConnectContactFlowReadFind(cf.contact_flow_id, cf.name,
                                                        cf.result, "nil")
       IN  cf' = [cf EXCEPT !.pc = IF r.ret = "err" THEN "done" ELSE "describe",
                            !.ret = r.ret, !.cause = r.cause, !.flowId = r.flowId]
    /\ UNCHANGED <<crudVars, probe, idc, ds, at, diff>>

\* the describe call and the rest of the read
FlowDescribe ==
    /\ cf.pc = "describe"
    /\ \E x \in {"nil", "other", "empty"} :
         LET r == dataSourceAwsConnectContactFlowReadDescribe(cf.flowId, x)
         IN  cf' = [cf EXCEPT !.pc = "done", !.ret = r.ret, !.cause = r.cause, !.id = r.id]
    /\ UNCHANGED <<crudVars, probe, idc, ds, at, diff>>

NextFlow ==
    \/ FlowStart
    \/ FlowPage
    \/ FlowListFail
    \/ FlowListed
    \/ FlowDescribe

SpecFlow == InitFlow /\ [][NextFlow]_vars

(***************************************************************************)
(* Specification of the placement group plan: CustomizeDiff is called for  *)
(* the plan of a resource that has no ID yet or has one, with the          *)
(* partition_count and the strategy the schema accepts.                    *)
(***************************************************************************)
\* ec2.PlacementStrategy_Values()
PlacementStrategies == {"cluster", "partition", "spread"}

\* resourceAwsPlacementGroupCustomizeDiff erring whether or not the resource has an ID
resourceAwsPlacementGroupCustomizeDiffAnyId(id, partitionCount, strategy) ==
    IF partitionCount > 0 /\ strategy # "partition" THEN "err" ELSE "ok"

resourceAwsPlacementGroupCustomizeDiff(id, partitionCount, strategy) ==
    IF id = ""
    THEN (IF partitionCount > 0 /\ strategy # "partition" THEN "err" ELSE "ok")
    ELSE "ok"

InitDiff ==
    /\ kind = "placement_group"
    /\ Idle
    /\ probe = NoProbe
    /\ idc = NoIdc
    /\ ds = NoDs
    /\ cf = NoCf
    /\ at = NoAt
    /\ \E id \in {"", "pg-1", "pg-2"}, n \in 0..MaxPartitionCount, s \in PlacementStrategies :
         diff = [pc |-> "plan", id |-> id, partition_count |-> n, strategy |-> s,
                 ret |-> "none"]

\* the plan is customized
CustomizeDiff ==
    /\ diff.pc = "plan"
    /\ diff' = [diff EXCEPT !.pc = "done",
                            !.ret = resourceAwsPlacementGroupCustomizeDiff(
                                        diff.id, diff.partition_count, diff.strategy)]
    /\ UNCHANGED <<crudVars, probe, idc, ds, cf, at>>

NextDiff == CustomizeDiff

SpecDiff == InitDiff /\ [][NextDiff]_vars

\* the waiter keeps polling, the retry window expires, and the handler keeps
\* running until it returns
FairSpec ==
    /\ Spec
    /\ WF_vars(WaiterPoll) /\ WF_vars(WaiterTimeout)
    /\ WF_vars(RetryExpire) /\ WF_vars(FinalAttempt)
    /\ WF_vars(ReadStep) /\ WF_vars(SetAttributes)

(***************************************************************************)
(* Properties                                                              *)
(***************************************************************************)
Last(q) == q[Len(q)]
\* the poll found nothing: no object, empty status, no error
Nothing(p) == p.status = "" /\ p.err = "nil"
\* handlers that wait after their API call
CreateWaits(k) == CreateHandler(k, "call", Created(k)).next = "wait"
DeleteWaits(k) == DeleteHandler(k, "call", Deleted(k)).next = "wait"
UpdateWaits(k) ==
    UpdateHandler(k, "call", [chg |-> {"fsx_admin_password"}, tags |-> "nil", upd |-> "nil"]).next
        = "wait"
Waits(k, o) ==
    CASE o = "create" -> CreateWaits(k)
      [] o = "update" -> UpdateWaits(k)
      [] o = "delete" -> DeleteWaits(k)
      [] OTHER -> FALSE
Ended == waitOut.outcome # "none"

\* C1: a waiter whose poll observes a status of its target set returns the
\* object that this last poll returned, and no error.
ThmC1 ==
    (polls # <<>> /\ Last(polls).err = "nil"
        /\ Last(polls).status \in WaiterConf(kind, op).target)
    => /\ waitOut.outcome = "target"
       /\ waitOut.err = "nil"
       /\ waitOut.obj = Last(polls).obj
       /\ waitOut.obj.lifecycle = Last(polls).status

WitC1 ==
    /\ kind = "fsx_ontap_file_system" /\ op = "create" /\ pc = "read"
    /\ Len(polls) = 2 /\ polls[1].status = "CREATING"
    /\ waitOut.obj = Obj("AVAILABLE") /\ waitOut.err = "nil"

\* C2: a Create that waits reaches Read, or returns success, only after a poll
\* observed a target status, and that poll is the last one and the only one that
\* did; the status a control panel Create records is then DEPLOYED unless the
\* remote status changed between the last poll and Read.
ThmC2 ==
    /\ (op = "create" /\ CreateWaits(kind) /\ (pc \in {"attrs", "read"} \/ ret = "ok"))
       => /\ polls # <<>>
          /\ Last(polls).status \in WaiterConf(kind, "create").target
          /\ \A i \in 1..(Len(polls) - 1) :
                polls[i].status \notin WaiterConf(kind, "create").target
    /\ (op = "create" /\ kind = "control_panel" /\ ret = "ok" /\ ~stale)
       => d.attrs = "DEPLOYED"

WitC2 ==
    /\ kind = "control_panel" /\ op = "create" /\ pc = "done" /\ ret = "ok"
    /\ Len(polls) = 2 /\ polls[1].status = "PENDING" /\ polls[2].status = "DEPLOYED"
    /\ d.attrs = "DEPLOYED"

\* C3: a waiter whose every poll returns a failure status ends with an error on
\* its first poll, not by timeout, and the Create returns an error without
\* calling Read.
ThmC3 ==
    (op = "create" /\ polls # <<>>
        /\ \A i \in 1..Len(polls) :
              polls[i].err = "nil" /\ polls[i].status \in Failure(kind, op))
    => /\ Len(polls) = 1
       /\ waitOut.outcome = "failure"
       /\ pc = "done" /\ ret = "err" /\ err.cause = "failure"
       /\ calls.read = "none" /\ calls.lookups = 1

WitC3 ==
    /\ kind = "fsx_backup" /\ op = "create" /\ pc = "done" /\ ret = "err"
    /\ Len(polls) = 1 /\ polls[1].status = "FAILED"

\* what the polls of an ended waiter say its outcome is
Verdict ==
    IF polls # <<>> /\ WaitOutcome(kind, op, Last(polls)) # "continue"
    THEN WaitOutcome(kind, op, Last(polls))
    ELSE "timeout"

InvC4 ==
    /\ pc = "wait" => (elapsed <= Timeout /\ ~Ended)
    /\ (pc \in {"attrs", "read", "done"} /\ call = "nil" /\ Waits(kind, op)) => Ended
    /\ Ended => /\ waitOut.outcome \in {"target", "failure", "timeout", "error"}
                /\ waitOut.outcome = Verdict
    /\ waitOut.outcome = "timeout"
       => /\ Len(polls) = Timeout
          /\ \A i \in 1..Len(polls) : WaitOutcome(kind, op, polls[i]) = "continue"
          /\ pc = "done" /\ ret = "err" /\ err = [cause |-> "timeout", named |-> TRUE]

\* C4: a waiter never polls past its timeout and always ends, in exactly one of
\* target reached, failure status, timeout or polling error; when no poll gave a
\* target status, a failure status or an error it ends by timeout, and the
\* handler then returns an error naming the resource ID.
ThmC4 == []InvC4 /\ ((pc = "wait") ~> (pc = "done" \/ Ended))

WitC4 ==
    /\ kind = "fsx_ontap_file_system" /\ op = "update" /\ pc = "done"
    /\ waitOut.outcome = "timeout" /\ ret = "err" /\ err.named
    /\ \A i \in 1..Len(polls) : polls[i].status = "UPDATING"

\* the status of the first non-nil action of the requested type, COMPLETED without one
StatusOfAction(actions, action, status) ==
    \/ \E i \in 1..Len(actions) :
          /\ actions[i].type = action
          /\ status = actions[i].status
          /\ \A j \in 1..(i - 1) : actions[j].type # action
    \/ /\ \A i \in 1..Len(actions) : actions[i].type # action
       /\ status = "COMPLETED"

\* C5: a status function returns (no object, empty status, no error) for a
\* finder's not-found, (no object, empty status, the finder's error) for any
\* other error, and the object with its status otherwise; an error never comes
\* with a status or an object.
ThmC5 ==
    probe.fn # "none"
    => /\ NotFound(probe.input.err)
          => probe.out = [obj |-> NoObj, status |-> "", err |-> "nil"]
       /\ probe.input.err \notin {"nil", "notfound"}
          => probe.out = [obj |-> NoObj, status |-> "", err |-> probe.input.err]
       /\ probe.input.err = "nil"
          => /\ probe.out.obj = probe.input.obj
             /\ probe.out.err = "nil"
             /\ IF probe.fn = "FileSystemAdministrativeActionsStatus"
                THEN StatusOfAction(probe.input.obj.actions, probe.action, probe.out.status)
                ELSE probe.out.status = probe.input.obj.lifecycle
       /\ probe.out.err # "nil" => (probe.out.status = "" /\ probe.out.obj = NoObj)

WitC5 ==
    /\ probe.fn = "FileSystemAdministrativeActionsStatus"
    /\ probe.input.err = "throttling"
    /\ probe.out.err = "throttling" /\ probe.out.status = ""

\* C6: a Delete whose delete call succeeded returns success on the poll that
\* reports the object not found, however many polls before it reported a
\* deleting status; a control panel Delete also returns success when its waiter
\* returns the not-found error.
ThmC6 ==
    /\ (op = "delete" /\ call = "nil" /\ polls # <<>> /\ Nothing(Last(polls))
          /\ \A i \in 1..(Len(polls) - 1) :
                polls[i].status \in WaiterConf(kind, "delete").pending)
       => (pc = "done" /\ ret = "ok" /\ waitOut.outcome = "target")
    /\ (op = "delete" /\ kind = "control_panel" /\ NotFound(waitOut.err))
       => (pc = "done" /\ ret = "ok")

WitC6 ==
    /\ kind = "fsx_ontap_file_system" /\ op = "delete" /\ ret = "ok"
    /\ Len(polls) = 3 /\ polls[1].status = "DELETING" /\ polls[2].status = "DELETING"
    /\ Nothing(polls[3])

\* a Delete has returned and the lookup after its delete call found nothing
DeletedAndGone ==
    /\ op = "delete" /\ pc = "done" /\ call = "nil"
    /\ IF DeleteWaits(kind)
       THEN polls # <<>> /\ (Nothing(Last(polls)) \/ NotFound(Last(polls).err))
       ELSE remote = "absent"

\* C7 as stated: after such a Delete, no error is returned and the ID in state is empty.
InvC7 == DeletedAndGone => (ret = "ok" /\ d.id = "")

\* C7, amended: after a Delete whose subsequent lookup finds nothing, Delete
\* returns no error and has left the ID as it was: no Delete handler clears it.
ThmC7 == DeletedAndGone => (ret = "ok" /\ d.id = pre.id /\ d.id # "")

WitC7 ==
    /\ kind = "placement_group" /\ DeletedAndGone /\ Len(polls) = 2
    /\ ret = "ok" /\ d.id = TheId

\* C8: a Read of a resource that is not new whose lookup reports not-found
\* empties the ID, returns no error and writes no attribute.
ThmC8 ==
    (op \in {"read", "update"} /\ calls.read = "notfound")
    => (pc = "done" /\ d.id = "" /\ ret = "ok" /\ d.attrs = pre.attrs)

WitC8 ==
    /\ kind = "shield_protection_group" /\ op = "read" /\ calls.read = "notfound"
    /\ d.id = "" /\ pre.id = TheId /\ pre.attrs = "ACTIVE"

\* C9: the Read that ends a Create, when its lookup reports not-found, returns
\* an error and keeps the ID.
InvC9 ==
    (op = "create" /\ calls.read = "notfound") => (ret = "err" /\ d.id # "")

\* the delete calls a Delete has made: one, or the attempts of its retries
DeleteCalls == IF retry.tries = <<>> THEN 1 ELSE Len(retry.tries) + Len(retry.outside)

\* C10: a Delete whose delete call fails with not-found returns success with
\* no waiting and no call after it; a Delete right after a successful Delete
\* succeeds again unless its call fails with another error.
ThmC10 ==
    /\ (op = "delete" /\ NotFound(call))
       => /\ pc = "done" /\ ret = "ok"
          /\ polls = <<>> /\ ~Ended
          /\ calls = [api |-> DeleteCalls, lookups |-> 0, read |-> "none"]
    /\ (op = "delete" /\ pre.again)
       => (call \notin {"none", "nil"} /\ (NotFound(call) => ret = "ok"))

WitC10 ==
    /\ kind = "fsx_backup" /\ op = "delete" /\ pre.again /\ NotFound(call) /\ ret = "ok"

\* the "/"-separated segments of a string
Segments(s) == SplitN(s, "/", Len(s) + 1)
\* the string has no "/"
NoDelimiter(s) == \A i \in 1..Len(s) : s[i] # "/"

\* C11: parsing the ID that Create built from an account ID, a namespace, a
\* group name and a member name returns these four values and no error.
InvC11 ==
    (idc.built /\ idc.op = "parse") => idc.parsed = [parts |-> idc.parts, err |-> "nil"]

\* C12: ParseID of a string without "/" returns an error; whenever ParseID
\* returns an error its four parts are empty; Read and Delete of a resource
\* whose ID has no "/" return the format error and make no API call.
ThmC12 ==
    /\ (idc.op = "parse" /\ NoDelimiter(idc.id)) => idc.parsed.err = "format"
    /\ (idc.op = "parse" /\ idc.parsed.err # "nil") => idc.parsed.parts = NoParts
    /\ (idc.op \in {"read", "delete"} /\ (NoDelimiter(idc.id) \/ Len(Segments(idc.id)) < 4))
       => (idc.ret = "err" /\ idc.cause = "format" /\ idc.api = 0)

WitC12 ==
    /\ idc.op = "delete" /\ idc.id = <<"a", "a">>
    /\ idc.ret = "err" /\ idc.cause = "format" /\ idc.api = 0

\* C13: ParseID rejects every string that is not four non-empty
\* "/"-separated segments.
InvC13 ==
    (idc.op = "parse"
        /\ ~(Len(Segments(idc.id)) = 4 /\ \A i \in 1..4 : Segments(idc.id)[i] # <<>>))
    => idc.parsed.err = "format"

\* the PutRule error that Create and Update retry
Assumed(e) == ErrMessageContains(e, "ValidationException", "cannot be assumed by principal")

\* C14: in event rule Create and Update, every PutRule attempt but the last
\* failed with the ValidationException "cannot be assumed by principal"; an
\* attempt failing with any other error is the last call and its error is
\* returned; a successful attempt is the last call; the attempt after the loop
\* is made only when Retry timed out on that error.
ThmC14 ==
    (kind = "cloudwatch_event_rule" /\ op \in {"create", "update"} /\ retry.tries # <<>>)
    => /\ \A i \in 1..(Len(retry.tries) - 1) : Assumed(retry.tries[i])
       /\ (~Assumed(Last(retry.tries)) /\ Last(retry.tries) # "nil")
          => (pc = "done" /\ ret = "err" /\ err.cause = "call" /\ retry.outside = <<>>)
       /\ Last(retry.tries) = "nil" => (pc \notin {"retry", "final"} /\ retry.outside = <<>>)
       /\ retry.outside # <<>>
          => (retry.out = "timeout" /\ \A i \in 1..Len(retry.tries) : Assumed(retry.tries[i]))
       /\ op = "create" => calls.api = Len(retry.tries) + Len(retry.outside)

WitC14 ==
    /\ kind = "cloudwatch_event_rule" /\ op = "create" /\ pc = "done"
    /\ retry.tries = <<"assume", "validation">> /\ ret = "err" /\ d.id = ""

\* C15: when a Create has returned, the ID is set exactly when its create call
\* succeeded.
InvC15 == (op = "create" /\ pc = "done") => (d.id # "" <=> call = "nil")

InvC16 ==
    kind \in Retries
    => /\ Len(retry.tries) <= MaxTries
       /\ Len(retry.outside) <= 1
       /\ retry.out # "none" => pc # "retry"
       /\ retry.outside # <<>> => retry.out = "timeout"
       /\ retry.out \notin {"none", "timeout"}
          => (pc = "done" /\ ret = "err" /\ retry.outside = <<>>)
       /\ (retry.outside # <<>> /\ retry.outside[1] # "nil")
          => /\ pc = "done"
             /\ IF op = "delete" /\ NotFound(retry.outside[1])
                THEN ret = "ok"
                ELSE ret = "err" /\ err.cause = "call"

\* C16: a retried call is attempted at most MaxTries times inside its window;
\* once the window has expired no attempt is made inside the loop, at most one
\* is made after it and its error is what the handler returns; a handler that
\* retries always returns.
ThmC16 == []InvC16 /\ ((pc \in {"retry", "final"}) ~> (pc = "done"))

WitC16 ==
    /\ kind = "cloudwatch_event_rule" /\ op = "delete" /\ pc = "done"
    /\ Len(retry.tries) = MaxTries /\ retry.out = "timeout"
    /\ retry.outside = <<"targets">> /\ ret = "err"

\* C17: a handler that got an error from one of its API calls returns an
\* error, unless it is a Delete that got not-found or the Read of an existing
\* resource that got not-found and dropped it.
InvC17 ==
    (pc = "done" /\ errs # {})
    => \/ ret = "err"
       \/ op = "delete" /\ \A e \in errs : NotFound(e.err)
       \/ /\ op \in {"read", "update"}
          /\ errs = {[api |-> "lookup", err |-> "notfound"]}
          /\ d.id = ""

\* C18: a Flow Log Create whose response carries a failed item returns an
\* error, leaves the ID unset and does not read; a Flow Log Delete whose
\* response carries a failed item returns an error, unless the item's code is
\* not-found: then it returns success.
ThmC18 ==
    /\ (kind = "flow_log" /\ op = "create" /\ batch # <<>>)
       => (call # "nil" /\ pc = "done" /\ ret = "err" /\ d.id = "" /\ calls.lookups = 0)
    /\ (kind = "flow_log" /\ op = "delete" /\ batch # <<>>)
       => /\ pc = "done"
          /\ IF batch[1] = "notfound" THEN ret = "ok" ELSE ret = "err"

WitC18 ==
    /\ kind = "flow_log" /\ op = "delete" /\ batch = <<"notfound">>
    /\ pc = "done" /\ ret = "ok"

\* the clusters of the first n pages, in order
RECURSIVE Flat(_, _)
Flat(ps, n) == IF n = 0 THEN <<>> ELSE Flat(ps, n - 1) \o ps[n].clusters
AllNames(ps) ==
    UNION {{ps[i].clusters[j] : j \in 1..Len(ps[i].clusters)} : i \in 1..Len(ps)}

\* C19: the data source has gathered the clusters of every page it was handed
\* so far, nil pages adding nothing; the listing ends only after the last
\* page; without a listing error the read returns no error, the names of all
\* pages (none when no page has any) and the region as ID; with a listing
\* error it returns an error and sets no ID.
ThmC19 ==
    /\ ds.pc = "list" => ds.clusters = Flat(ds.pages, ds.next - 1)
    /\ (ds.pc \in {"listed", "done"} /\ ds.failAt = 0)
       => (ds.next = Len(ds.pages) + 1 /\ ds.clusters = Flat(ds.pages, Len(ds.pages)))
    /\ (ds.pc = "done" /\ ds.failAt = 0)
       => (ds.ret = "ok" /\ ds.names = AllNames(ds.pages) /\ ds.id = Region)
    /\ (ds.pc = "done" /\ ds.failAt # 0) => (ds.ret = "err" /\ ds.id = "")

WitC19 ==
    /\ ds.pc = "done" /\ ds.ret = "ok" /\ Len(ds.pages) = 3
    /\ ds.pages[2] = NilPage /\ ds.pages[3].clusters = <<"c2">>
    /\ ds.names = {"c1", "c2"} /\ ds.id = Region

\* C20: an Update of a resource whose remote object is gone returns an error
\* and leaves the ID as it was.
InvC20 ==
    (op = "update" /\ pc = "done" /\ pre.gone /\ remote = "absent")
    => (ret = "err" /\ d.id = pre.id)

\* C21: an Update issues its update call only when an attribute other than the
\* tags changed, and the input of the call carries changed attributes only; a
\* change of the tags alone issues no update call.
InvC21 ==
    (op = "update" /\ call # "none")
    => /\ chg \ {"tags", "tags_all"} # {}
       /\ UpdateInput(kind, chg) \subseteq chg

\* C22: a not-found answer is never retried by a retry loop, and a throttling
\* error answered to an attempt inside a retry loop or to a poll of a waiter
\* is retried: it does not end the loop or the waiter.
InvC22 ==
    /\ \A i \in 1..(Len(retry.tries) - 1) : ~NotFound(retry.tries[i])
    /\ (retry.tries # <<>> /\ retry.out = "none" /\ retry.outside = <<>>
           /\ Last(retry.tries) = "throttling")
       => pc = "retry"
    /\ (polls # <<>> /\ Last(polls).err = "throttling") => waitOut.outcome = "none"

\* C23: a Shield protection group or a QuickSight group membership imported
\* by its ID and read has the same ID and the same attribute values as the
\* resource that Create made and read for the same remote object.
ThmC23 ==
    (kind \in {"shield_protection_group", "quicksight_group_membership"}
        /\ at.pc = "created" /\ at.ret = "ok" /\ at.twin.pc = "read" /\ at.twin.ret = "ok")
    => (at.twin.id = at.id /\ at.twin.st = at.st)

WitC23 ==
    /\ at.pc = "created" /\ at.ret = "ok" /\ at.twin.pc = "read" /\ at.twin.ret = "ok"
    /\ kind = "shield_protection_group"
    /\ at.obj.Members.nil /\ at.obj.ResourceType.nil
    /\ at.twin.st.pattern = "ALL"

\* the places <<page, index>> of the summaries with this name
Matches(ps, name) ==
    {m \in (1..Len(ps)) \X (1..MaxFlows + 1) :
        /\ ~ps[m[1]].nil
        /\ m[2] <= Len(ps[m[1]].list)
        /\ ~ps[m[1]].list[m[2]].nil
        /\ ps[m[1]].list[m[2]].Name = name}
\* the first of them in page order
FirstMatch(ps, name) ==
    CHOOSE m \in Matches(ps, name) :
        \A o \in Matches(ps, name) : m[1] < o[1] \/ (m[1] = o[1] /\ m[2] <= o[2])

\* C24: read by name, the contact flow data source returns the not-found
\* error when no summary of any page has the name; otherwise it asks for the
\* first summary with the name in page order and has requested no page after
\* that one.  Read by contact_flow_id, it makes no list call.
ThmC24 ==
    /\ (cf.pc = "done" /\ cf.name # "" /\ cf.cause # "list")
       => IF Matches(cf.pages, cf.name) = {}
          THEN cf.ret = "err" /\ cf.cause = "notfound" /\ cf.id = <<>>
          ELSE LET m == FirstMatch(cf.pages, cf.name)
               IN  /\ cf.flowId = cf.pages[m[1]].list[m[2]].Id
                   /\ cf.requested = m[1]
                   /\ cf.cause # "notfound"
    /\ (cf.pc \in {"describe", "done"} /\ cf.contact_flow_id # "")
       => (cf.lists = 0 /\ cf.requested = 0 /\ cf.flowId = cf.contact_flow_id)

WitC24 ==
    /\ cf.pc = "done" /\ cf.name = "n1" /\ cf.ret = "ok"
    /\ Len(cf.pages) = 2 /\ cf.requested = 1
    /\ ~cf.pages[1].nil /\ Len(cf.pages[1].list) = 2
    /\ cf.pages[1].list[1].Name = "n2"
    /\ cf.pages[1].list[2].Id = "f2"
    /\ Matches(cf.pages, "n1") = {<<1, 2>>, <<2, 1>>}
    /\ cf.id = <<InstanceId, "f2">>

\* C25: after a successful Create of a Connect instance every instance
\* attribute has on the remote instance the value configured for it.
InvC25 ==
    (at.pc = "created" /\ kind = "connect_instance" /\ at.ret = "ok")
    => \A a \in ConnectAttributes : at.obj.Attributes[a] = at.cfg[a]

\* C26: a Create that returned success left a non-empty ID in state, the ID
\* of the object the create call made; and whatever the response of the
\* create call is, Create never ends by indexing or dereferencing an element
\* the response does not have.
InvC26 ==
    at.pc = "created"
    => /\ at.ret # "panic"
       /\ at.ret = "ok" => (at.id # NoId(kind) /\ at.id = IdOf(kind, at.cfg, at.obj))

\* C27: a Shield protection group Update whose plan changes tags_all and
\* whose update call succeeded makes its tag call for the ARN that Read
\* recorded in state under protection_group_arn.
InvC27 ==
    (at.pc = "created" /\ at.upd.pc = "done" /\ at.upd.plan # at.upd.was
        /\ at.upd.call = "nil")
    => (~at.upd.tagged.nil /\ at.upd.tagged.v = at.upd.arn)

\* C29: Read leaves in state what the API does not return: the administrator
\* password of an FSx ONTAP file system, the role of a Transfer access, the
\* content of the template of a SageMaker human task UI; and the bus name of
\* an event rule is the one in the resource ID.
InvC29 ==
    (at.pc = "created" /\ at.ret = "ok")
    => /\ kind = "fsx_ontap_file_system"
            => at.st.fsx_admin_password = at.cfg.fsx_admin_password
       /\ kind = "transfer_access" => at.st.role = at.cfg.role
       /\ kind = "sagemaker_human_task_ui"
            => UiTemplateContent(at.st) = UiTemplateContent(at.cfg)
       /\ kind = "cloudwatch_event_rule"
            => at.st.event_bus_name = RuleParseResourceID(at.id).eventBusName

\* C28: FileSystemAdministrativeActionsStatus answers, for a file system that
\* was found, the status of the first action in the list that is not nil and
\* has the requested type; when the list has no such action it answers
\* COMPLETED, which ends a waiter for that action on this poll.
ThmC28 ==
    (probe.fn = "FileSystemAdministrativeActionsStatus" /\ probe.input.err = "nil")
    => LET actions == probe.input.obj.actions
           mine == {i \in 1..Len(actions) : actions[i].type = probe.action}
       IN  IF mine = {}
           THEN /\ probe.out.status = "COMPLETED"
                /\ AdministrativeActionOutcome(probe.out) = "target"
           ELSE \E i \in mine : /\ \A j \in mine : i <= j
                                 /\ probe.out.status = actions[i].status

WitC28 ==
    /\ probe.fn = "FileSystemAdministrativeActionsStatus" /\ probe.input.err = "nil"
    /\ probe.action = "FILE_SYSTEM_UPDATE"
    /\ Len(probe.input.obj.actions) = 2
    /\ probe.input.obj.actions[1].type = "<nil>"
    /\ probe.input.obj.actions[2] = [type |-> "STORAGE_OPTIMIZATION", status |-> "IN_PROGRESS"]
    /\ probe.out.status = "COMPLETED"
    /\ AdministrativeActionOutcome(probe.out) = "target"

\* C30: the CustomizeDiff of a placement group returns an error exactly when
\* the resource has no ID yet, partition_count is greater than zero and the
\* strategy is not "partition"; for a resource that has an ID it returns none.
ThmC30 ==
    diff.pc = "done"
    => /\ diff.ret = "err"
            <=> (diff.id = "" /\ diff.partition_count > 0 /\ diff.strategy # "partition")
       /\ diff.id # "" => diff.ret = "ok"

WitC30 ==
    /\ diff.pc = "done" /\ diff.id = "pg-1" /\ diff.partition_count = 3
    /\ diff.strategy = "cluster" /\ diff.ret = "ok"
====
